---- MODULE Spec2Model ----
(***************************************************************************)
(* Model of the Potion contract (src/unnamed/part_003, lines 657-797) and  *)
(* of the FHE coprocessor / ACL it calls into.                             *)
(*                                                                         *)
(* A ciphertext handle is a positive integer, the index of its plaintext   *)
(* in the coprocessor's table `plain`; handle 0 is the uninitialized       *)
(* handle (bytes32(0)) a storage slot holds before it is first written.    *)
(* Every homomorphic operation mints a new handle.  One transaction is one *)
(* atomic step: it either commits all its writes or reverts and commits    *)
(* none.                                                                   *)
(***************************************************************************)
EXTENDS Integers, Sequences, FiniteSets, TLC

\* ------------------------------------------------------------- bounds
MaxCalls == 3          \* compute transactions in one behaviour
NumAddr == 2           \* externally owned accounts
NumCallers == 2        \* client flows that may call into lib/fhe.ts at once
MaxClientCalls == 3    \* calls into lib/fhe.ts started in one behaviour
NumFlows == 2          \* user actions that may run the hook's submitPotion at once
MaxSubmits == 2        \* submitPotion calls started in one behaviour
MaxLogs == 2           \* logs in one transaction receipt
MaxDecrypts == 2       \* requestUserDecryption calls followed in one behaviour
MaxScanLogs == 3       \* logs of the receipt whose scan is followed step by step

\* ------------------------------------------------- program constants
ScaleFactor == 14
Offset == 300
InitialBest == 0
NumInputs == 5

Address == 1..NumAddr
This == 0                      \* address(this), the Potion contract
OtherContract == NumAddr + 1   \* some other contract an input may be bound to
Contracts == {This, OtherContract}
Principal == Address \cup {This}

TwoPow16 == 2^16               \* euint16 arithmetic is modulo 2^16
TwoPow8 == 2^8                 \* an external euint8 holds a byte

\* The plaintext quintuples a client may encrypt (add8: each value a byte).
Quintuples ==
    { <<0, 0, 0, 0, 0>>, <<1, 2, 3, 4, 5>>, <<50, 50, 50, 50, 50>>,
      <<255, 255, 255, 255, 255>> }

\* An attestation (inputProof): which of the five submitted handles it
\* covers, and the contract and submitter the ciphertexts were bound to.
Attestations ==
    [covers : {1..NumInputs, 1..(NumInputs - 1)}, contract : Contracts, user : Address]

VARIABLES
    players,             \* address[] players
    hasPlayed,           \* mapping(address => bool)
    highestPlayerGuess,  \* mapping(address => euint16), 0 = never written
    plain,               \* coprocessor: plaintext behind each minted handle
    allowed,             \* ACL: persistent (handle, account) grants
    publicDecryptable,   \* ACL: handles marked publicly decryptable
    events,              \* ComputeResult log: the emitted handles, in order
    txlog,               \* history: one entry per compute transaction
    lastCall,            \* history: detail of the latest compute transaction
    relayer,             \* lib/fhe.ts: `let relayer`, 0 = null, else an instance
    fhe,                 \* lib/fhe.ts: the call each client flow is in
    ext,                 \* history: calls the lib/fhe.ts flows made to SDK, relayer, signer
    hook,                \* usePotionContract: the submitPotion call of each user action
    isLoading,           \* usePotionContract: the isLoading state
    submits,             \* history: submitPotion calls started
    mock,                \* lib/contract.ts: the submitPotion call of each flow
    mockCalls,           \* history: lib/contract.ts submitPotion calls started
    udr,                 \* lib/fhe.ts: the requestUserDecryption call being followed
    decrypts,            \* history: requestUserDecryption calls started
    scan                 \* usePotionContract: the log scan of one receipt, step by step

contractVars == <<players, hasPlayed, highestPlayerGuess, plain, allowed,
                  publicDecryptable, events>>
chainVars == <<players, hasPlayed, highestPlayerGuess, plain, allowed,
               publicDecryptable, events, txlog, lastCall>>
fheVars == <<relayer, fhe, ext>>
hookVars == <<hook, isLoading, submits>>
mockVars == <<mock, mockCalls>>
udrVars == <<udr, decrypts>>
scanVars == <<scan>>
vars == <<players, hasPlayed, highestPlayerGuess, plain, allowed,
          publicDecryptable, events, txlog, lastCall, relayer, fhe, ext,
          hook, isLoading, submits, mock, mockCalls, udr, decrypts, scan>>

\* ------------------------------------------------------------ helpers
Max(x, y) == IF x >= y THEN x ELSE y
Occurrences(s, x) == Cardinality({i \in DOMAIN s : s[i] = x})
Handles == 1..Len(plain)

\* ------------------------------------------- FHE library (coprocessor)
\* Each operation is given by the plaintext of the ciphertext it mints, as a
\* function of the plaintexts of its operands.  The caller appends that
\* plaintext to the table; the position it lands on is the new handle.
asEuint16(v) == v % TwoPow16
trivialEuint16(v) == v % TwoPow16
\* Mutant: the addition is done on 8 bits (the operands were not widened).
FHEaddNarrow(x, y) == (x + y) % TwoPow8
FHEadd(x, y) == (x + y) % TwoPow16
\* Mutant: the product is taken on 8 bits.
FHEmulNarrow(x, y) == (x * y) % TwoPow8
FHEmul(x, y) == (x * y) % TwoPow16
\* Mutant: the comparison is reversed.
FHEgtReversed(x, y) == IF x < y THEN 1 ELSE 0
FHEgt(x, y) == IF x > y THEN 1 ELSE 0
\* Mutant: the branches of the select are swapped.
FHEselectSwapped(c, x, y) == IF c = 1 THEN y ELSE x
FHEselect(c, x, y) == IF c = 1 THEN x ELSE y

\* ACL.isAllowed: a persistent grant, or a transient one; the transient
\* grants of a transaction are exactly the handles it minted itself
\* (handles above `base`, the table's length when the transaction began).
isAllowed(h, account, base) ==
    \/ <<h, account>> \in allowed
    \/ (account = This /\ h > base)

\* Mutant: the input verifier does not check who submitted the ciphertexts.
fromExternalAnySubmitter(i, attestation, sender) ==
    /\ i \in attestation.covers
    /\ attestation.contract = This

\* FHE.fromExternal on the i-th external handle: the input verifier accepts
\* it iff the attestation covers that handle and was made for this contract
\* and for the caller of the contract.
fromExternal(i, attestation, sender) ==
    /\ i \in attestation.covers
    /\ attestation.contract = This
    /\ attestation.user = sender

\* Lines 726-742: sum, scale, offset.  a..e are the imported euint8 handles.
\* The thirteen ciphertexts are minted in Solidity's evaluation order
\* (arguments left to right, innermost call first).
ScorePipeline(m, a, b, c, d, e) ==
    LET n == Len(m)
        a16 == asEuint16(m[a])
        b16 == asEuint16(m[b])
        ab == FHEadd(a16, b16)
        c16 == asEuint16(m[c])
        abc == FHEadd(ab, c16)
        d16 == asEuint16(m[d])
        abcd == FHEadd(abc, d16)
        e16 == asEuint16(m[e])
        sum == FHEadd(abcd, e16)
        factor == trivialEuint16(ScaleFactor)
        scaled == FHEmul(sum, factor)
        offset == trivialEuint16(Offset)
        result == FHEadd(scaled, offset)
    IN  [mem |-> m \o <<a16, b16, ab, c16, abc, d16, abcd, e16, sum, factor,
                        scaled, offset, result>>,
         sum |-> n + 9, scaled |-> n + 11, result |-> n + 13]

\* Lines 747-752: registration of a first-time caller.
\* Mutant: a new player is put at the front of the list.
RegisterPlayersPrepend(pl, played, sender) ==
    IF ~played[sender] THEN <<sender>> \o pl ELSE pl
\* Mutant: the caller is appended on every call, registered or not.
RegisterPlayersAlways(pl, played, sender) == Append(pl, sender)
RegisterPlayers(pl, played, sender) ==
    IF ~played[sender] THEN Append(pl, sender) ELSE pl
\* Mutant: the flag of every address is set.
RegisterHasPlayedAll(played, sender) == [a \in DOMAIN played |-> TRUE]
\* Mutant: the hasPlayed flag is never set.
RegisterHasPlayedNever(played, sender) == played
RegisterHasPlayed(played, sender) ==
    IF ~played[sender] THEN [played EXCEPT ![sender] = TRUE] ELSE played

\* Mutant: the new result always replaces the stored best.
SelectBestOverwrite(m, result, prevBest) ==
    LET isHigher == FHEgt(m[result], m[prevBest])
        newBest == FHEselect(isHigher, m[result], m[result])
    IN  [mem |-> m \o <<isHigher, newBest>>,
         isHigher |-> Len(m) + 1, newBest |-> Len(m) + 2]

\* Mutant: the contract branches on the comparison and keeps the old handle
\* when the result is not higher.
SelectBestBranching(m, result, prevBest) ==
    LET isHigher == FHEgt(m[result], m[prevBest])
    IN  IF isHigher = 1
        THEN [mem |-> m \o <<isHigher, m[result]>>,
              isHigher |-> Len(m) + 1, newBest |-> Len(m) + 2]
        ELSE [mem |-> m \o <<isHigher>>,
              isHigher |-> Len(m) + 1, newBest |-> prevBest]

\* Lines 754-758: encrypted comparison and oblivious select.
SelectBest(m, result, prevBest) ==
    LET isHigher == FHEgt(m[result], m[prevBest])
        newBest == FHEselect(isHigher, m[result], m[prevBest])
    IN  [mem |-> m \o <<isHigher, newBest>>,
         isHigher |-> Len(m) + 1, newBest |-> Len(m) + 2]

\* ACL.allow(handle, account): adds one persistent grant.
ACLallow(acl, h, account) == acl \cup {<<h, account>>}

\* Mutant: the caller is also granted the intermediate sum.
GrantsAppliedLeakSum(acl, h, stored, sender) ==
    ACLallow(ACLallow(ACLallow(ACLallow(ACLallow(acl, h.result, This), stored, This),
                               h.result, sender),
                      h.newBest, sender),
             h.sum, sender)

\* Mutant: the caller is granted the previous best instead of the new one.
GrantsAppliedPrevBest(acl, h, stored, sender) ==
    ACLallow(ACLallow(ACLallow(ACLallow(acl, h.result, This), stored, This),
                      h.result, sender),
             h.prevBest, sender)

\* Mutant: the result is granted to every account, not to the caller only.
GrantsAppliedAllAccounts(acl, h, stored, sender) ==
    ACLallow(ACLallow(ACLallow(acl, h.result, This), stored, This), h.newBest, sender)
        \cup {<<h.result, a>> : a \in Address}

\* Mutant: the contract does not grant itself the stored best.
GrantsAppliedNoAllowThisBest(acl, h, stored, sender) ==
    ACLallow(ACLallow(ACLallow(acl, h.result, This), h.result, sender),
             h.newBest, sender)

\* Lines 763-769: allowThis(result), allowThis(highestPlayerGuess[sender]),
\* allow(result, sender), allow(newBest, sender), applied to the grant table.
\* h holds the handles of the call, stored the caller's storage slot.
GrantsApplied(acl, h, stored, sender) ==
    ACLallow(ACLallow(ACLallow(ACLallow(acl, h.result, This), stored, This),
                      h.result, sender),
             h.newBest, sender)

\* Mutant: the fresh result is marked public, not the stored best.
MakePublicResult(pub, h) == pub \cup {h.result}

\* Mutant: marking the new best public withdraws the mark of the old best.
MakePublicRevokeOld(pub, h) == (pub \ {h.prevBest}) \cup {h.newBest}

\* Mutant: the fresh result is marked public along with the stored best.
MakePublicBoth(pub, h) == pub \cup {h.newBest, h.result}

\* Line 772: makePubliclyDecryptable(newBest), applied to the public set.
MakePublic(pub, h) == pub \cup {h.newBest}

\* Mutant: the event carries the stored best instead of the result.
EmitComputeResultBest(log, h) == Append(log, h.newBest)

\* Line 774: emit ComputeResult(result), applied to the event log.
EmitComputeResult(log, h) == Append(log, h.result)

NoHandles ==
    [sum |-> 0, scaled |-> 0, result |-> 0, prevBest |-> 0, isHigher |-> 0,
     newBest |-> 0]

\* A transaction that reverts: nothing of the contract or the ACL changes.
Revert(sender, attestation) ==
    /\ UNCHANGED contractVars
    /\ txlog' = Append(txlog, [sender |-> sender, ok |-> FALSE, ret |-> 0, best |-> 0,
                               in |-> <<>>])
    /\ lastCall' = [sender |-> sender, ok |-> FALSE, att |-> attestation,
                    inputs |-> <<>>, base |-> Len(plain), h |-> NoHandles]

\* Potion.compute, lines 711-775, called by `sender` with the external
\* handles of the plaintexts `in` and the attestation `attestation`.
Compute(sender, in, attestation) ==
    /\ Len(txlog) < MaxCalls
    /\ IF \E i \in 1..NumInputs : ~fromExternal(i, attestation, sender)
       THEN Revert(sender, attestation)
       ELSE
         LET base == Len(plain)
             m0 == plain \o [i \in 1..NumInputs |-> in[i] % TwoPow8]
             sc == ScorePipeline(m0, base + 1, base + 2, base + 3, base + 4, base + 5)
             isNew == ~hasPlayed[sender]
             mz == IF isNew THEN Append(sc.mem, trivialEuint16(InitialBest))
                   ELSE sc.mem
             prevBest == IF isNew THEN Len(mz) ELSE highestPlayerGuess[sender]
             sel == SelectBest(mz, sc.result, prevBest)
             stored == [highestPlayerGuess EXCEPT ![sender] = sel.newBest]
             h == [sum |-> sc.sum, scaled |-> sc.scaled, result |-> sc.result,
                   prevBest |-> prevBest, isHigher |-> sel.isHigher,
                   newBest |-> sel.newBest]
         IN  IF ~isAllowed(prevBest, This, base)
             THEN Revert(sender, attestation)
             ELSE
               /\ players' = RegisterPlayers(players, hasPlayed, sender)
               /\ hasPlayed' = RegisterHasPlayed(hasPlayed, sender)
               /\ highestPlayerGuess' = stored
               /\ plain' = sel.mem
               /\ allowed' = GrantsApplied(allowed, h, stored[sender], sender)
               /\ publicDecryptable' = MakePublic(publicDecryptable, h)
               /\ events' = EmitComputeResult(events, h)
               /\ txlog' = Append(txlog, [sender |-> sender, ok |-> TRUE,
                                          ret |-> sc.result, best |-> stored[sender],
                                          in |-> in])
               /\ lastCall' = [sender |-> sender, ok |-> TRUE, att |-> attestation,
                               inputs |-> in, base |-> base, h |-> h]

\* Mutant: the loop stops one short (i < count - 1); the last slot keeps the
\* zero handle the array was created with.
getAllHighestGuessesShort ==
    [allPlayers |-> players,
     guesses |-> [i \in 1..Len(players) |->
                     IF i < Len(players) THEN highestPlayerGuess[players[i]] ELSE 0]]

\* Potion.getAllHighestGuesses, lines 783-796 (a view).
getAllHighestGuesses ==
    [allPlayers |-> players,
     guesses |-> [i \in 1..Len(players) |-> highestPlayerGuess[players[i]]]]

\* Relayer userDecrypt: the plaintext is released to `signer` only if the
\* ACL holds a grant for the signer on the handle.
UserDecryptOk(h, signer) == h \in Handles /\ <<h, signer>> \in allowed

\* Relayer publicDecrypt of a list of handles: succeeds only if every handle
\* of the list is marked publicly decryptable.
PublicDecryptOk(hs) == \A i \in DOMAIN hs : hs[i] \in Handles \cap publicDecryptable

\* ------------------------------------------------------- lib/fhe.ts
\* JavaScript runs one flow at a time and switches flows only at an await:
\* every action below is the code between two awaits of one flow.
Caller == 1..NumCallers
NotInitializedMsg == "Relayer not initialized"
InitFailedMsg == "Failed to initialize FHE encryption"
OperationFailedMsg == "operation failed"
SigningRejectedMsg == "User rejected the request"
SigningDeniedMsg == "User denied transaction signature"
GuardedFns == {"encryptValue", "requestUserDecryption", "fetchPublicDecryption"}
InitFns == {"initializeFHE", "getFhevmInstance"}

\* A flow that is in no call: fn and the outcome are those of its last call.
Idle(fn, seq, status, val, err) ==
    [fn |-> fn, seq |-> seq, pc |-> "idle", inst |-> 0, status |-> status,
     val |-> val, err |-> err]
\* A flow suspended at an await of a call.
Awaiting(fn, seq, pc, inst) ==
    [fn |-> fn, seq |-> seq, pc |-> pc, inst |-> inst, status |-> "none",
     val |-> 0, err |-> ""]
Count(field) == [ext EXCEPT ![field] = @ + 1, !.started = @ + 1]
Bump(field) == [ext EXCEPT ![field] = @ + 1]
CanStart(c) == fhe[c].pc = "idle" /\ ext.started < MaxClientCalls

\* Mutant: the guard is missing, the call goes on with a null relayer.
NotInitializedNever(r) == FALSE
\* Lines 49, 73, 124: `if (!relayer) throw new Error("Relayer not initialized")`.
NotInitialized(r) == r = 0

\* Mutant: the test of `relayer` is missing, every call initializes.
StartInitAlways(c, fn) ==
    /\ CanStart(c) /\ fn \in InitFns
    /\ fhe' = [fhe EXCEPT ![c] = Awaiting(fn, ext.started + 1, "initSDK", 0)]
    /\ ext' = Count("initSDK")
    /\ UNCHANGED <<relayer, chainVars, hookVars, mockVars, udrVars, scanVars>>

\* initializeFHE, lines 17-22, and getFhevmInstance, lines 30-33, up to the
\* first await: with a relayer the call returns it; without, initSDK() is
\* called and awaited.
StartInit(c, fn) ==
    /\ CanStart(c) /\ fn \in InitFns
    /\ IF relayer = 0
       THEN /\ fhe' = [fhe EXCEPT ![c] = Awaiting(fn, ext.started + 1, "initSDK", 0)]
            /\ ext' = Count("initSDK")
       ELSE /\ fhe' = [fhe EXCEPT ![c] = Idle(fn, ext.started + 1, "ok", relayer, "")]
            /\ ext' = [ext EXCEPT !.started = @ + 1]
    /\ UNCHANGED <<relayer, chainVars, hookVars, mockVars, udrVars, scanVars>>

\* Line 20 resolves; line 21 calls createInstance(SepoliaConfig), which will
\* yield a new instance, and awaits it.
InitSDKResolves(c) ==
    /\ fhe[c].pc = "initSDK"
    /\ fhe' = [fhe EXCEPT ![c] = Awaiting(fhe[c].fn, fhe[c].seq, "createInstance",
                                          ext.createInstance + 1)]
    /\ ext' = Bump("createInstance")
    /\ UNCHANGED <<relayer, chainVars, hookVars, mockVars, udrVars, scanVars>>

\* Line 21 resolves: relayer is assigned, line 23 returns it.  A
\* getFhevmInstance flow resumes later, at line 34.
CreateInstanceResolves(c) ==
    /\ fhe[c].pc = "createInstance"
    /\ relayer' = fhe[c].inst
    /\ fhe' = [fhe EXCEPT ![c] =
                 IF fhe[c].fn = "getFhevmInstance"
                 THEN Awaiting("getFhevmInstance", fhe[c].seq, "resume", fhe[c].inst)
                 ELSE Idle("initializeFHE", fhe[c].seq, "ok", fhe[c].inst, "")]
    /\ UNCHANGED <<ext, chainVars, hookVars, mockVars, udrVars, scanVars>>

\* Line 34: getFhevmInstance returns whatever relayer holds when it resumes.
GetInstanceResumes(c) ==
    /\ fhe[c].pc = "resume"
    /\ fhe' = [fhe EXCEPT ![c] = Idle("getFhevmInstance", fhe[c].seq, "ok", relayer, "")]
    /\ UNCHANGED <<relayer, ext, chainVars, hookVars, mockVars, udrVars, scanVars>>

\* Lines 24-27: initSDK or createInstance rejects; the catch throws
\* 'Failed to initialize FHE encryption' (getFhevmInstance passes it on).
InitRejects(c) ==
    /\ fhe[c].pc \in {"initSDK", "createInstance"}
    /\ fhe' = [fhe EXCEPT ![c] = Idle(fhe[c].fn, fhe[c].seq, "err", 0, InitFailedMsg)]
    /\ ext' = Bump("initFailed")
    /\ UNCHANGED <<relayer, chainVars, hookVars, mockVars, udrVars, scanVars>>

\* encryptValue lines 49-56, requestUserDecryption lines 73-100 and
\* fetchPublicDecryption lines 124-125, up to the first await: without a
\* relayer the call throws; with one, the relayer is used (and for a private
\* decryption the signer is asked to sign) and the call awaits the answer.
StartGuarded(c, fn) ==
    /\ CanStart(c) /\ fn \in GuardedFns
    /\ IF NotInitialized(relayer)
       THEN /\ fhe' = [fhe EXCEPT ![c] = Idle(fn, ext.started + 1, "err", 0, NotInitializedMsg)]
            /\ ext' = [ext EXCEPT !.started = @ + 1]
       ELSE /\ fhe' = [fhe EXCEPT ![c] =
                         Awaiting(fn, ext.started + 1,
                                  CASE fn = "encryptValue" -> "encrypt"
                                    [] fn = "requestUserDecryption" -> "signTypedData"
                                    [] OTHER -> "publicDecrypt",
                                  relayer)]
            /\ ext' = [Count("relayerOps") EXCEPT
                          !.signerOps = IF fn = "requestUserDecryption" THEN @ + 1 ELSE @]
    /\ UNCHANGED <<relayer, chainVars, hookVars, mockVars, udrVars, scanVars>>

\* Line 100 resolves with a signature; line 108 asks the signer its address.
SignResolves(c) ==
    /\ fhe[c].pc = "signTypedData"
    /\ fhe' = [fhe EXCEPT ![c] = Awaiting(fhe[c].fn, fhe[c].seq, "getAddress", fhe[c].inst)]
    /\ ext' = Bump("signerOps")
    /\ UNCHANGED <<relayer, chainVars, hookVars, mockVars, udrVars, scanVars>>

\* Line 108 resolves; line 102 calls relayer.userDecrypt and awaits it.
AddressResolves(c) ==
    /\ fhe[c].pc = "getAddress"
    /\ fhe' = [fhe EXCEPT ![c] = Awaiting(fhe[c].fn, fhe[c].seq, "userDecrypt", fhe[c].inst)]
    /\ ext' = Bump("relayerOps")
    /\ UNCHANGED <<relayer, chainVars, hookVars, mockVars, udrVars, scanVars>>

\* The awaited relayer answer arrives: lines 57, 115, 125 return it.
RelayerResolves(c) ==
    /\ fhe[c].pc \in {"encrypt", "userDecrypt", "publicDecrypt"}
    /\ fhe' = [fhe EXCEPT ![c] = Idle(fhe[c].fn, fhe[c].seq, "ok", fhe[c].inst, "")]
    /\ UNCHANGED <<relayer, ext, chainVars, hookVars, mockVars, udrVars, scanVars>>

\* An awaited relayer or signer call rejects: the function has no catch, so
\* the rejection is the call's outcome.
GuardedRejects(c) ==
    /\ fhe[c].pc \in {"encrypt", "signTypedData", "getAddress", "userDecrypt",
                      "publicDecrypt"}
    /\ fhe' = [fhe EXCEPT ![c] =
                 Idle(fhe[c].fn, fhe[c].seq, "err", 0,
                      IF fhe[c].pc = "signTypedData" THEN SigningRejectedMsg
                      ELSE OperationFailedMsg)]
    /\ UNCHANGED <<relayer, ext, chainVars, hookVars, mockVars, udrVars, scanVars>>

\* --------------------------------------- hooks/usePotionContract.ts
\* One submitPotion call per flow at a time; as above, an action is the code
\* of one flow between two awaits.
Flow == 1..NumFlows
WalletNotConnectedMsg == "Wallet not connected"
NotFoundMsg == "ComputeResult not found in logs"
RevertedMsg == "execution reverted"
PipelineOrder == <<"encrypt", "submit", "wait", "scan", "decrypt">>

\* What a receipt's log can be to decodeEventLog with the contract's ABI, lines
\* 140-144: a ComputeResult carrying a handle, another event, or a log that
\* does not decode.
HandleValues == 1..2
Logs ==
    [kind : {"ComputeResult"}, value : HandleValues]
        \cup [kind : {"OtherEvent", "Undecodable"}, value : {0}]
LogSeqs == UNION {[1..n -> Logs] : n \in 0..MaxLogs}
\* A reverted transaction is mined with no logs.
Receipts ==
    [status : {"success"}, logs : LogSeqs] \cup [status : {"reverted"}, logs : {<<>>}]
\* The plaintext the relayer holds for a handle.
ClearOf(value) == IF value = 1 THEN Offset ELSE Offset + ScaleFactor * 15

\* History: what the receipt was, whether some log of it is a ComputeResult.
NoComputeResult(receipt) ==
    \A i \in DOMAIN receipt.logs : receipt.logs[i].kind # "ComputeResult"

\* Mutant: a default handle is used when no ComputeResult is found.
ScanLogsDefault(logs) ==
    LET found == {i \in DOMAIN logs : logs[i].kind = "ComputeResult"}
    IN  IF found = {} THEN 1
        ELSE logs[CHOOSE i \in found : \A j \in found : i <= j].value
\* Lines 135-154: the value of the first log that decodes as ComputeResult,
\* 0 (null) when there is none.
ScanLogs(logs) ==
    LET found == {i \in DOMAIN logs : logs[i].kind = "ComputeResult"}
    IN  IF found = {} THEN 0
        ELSE logs[CHOOSE i \in found : \A j \in found : i <= j].value

\* The parameters of the event as the contract declares it.
ComputeResultArgs == {"value"}
\* decoded.args[name]: a property the decoded event does not have reads as
\* undefined.
DecodedArg(log, name) ==
    IF name \in ComputeResultArgs THEN log[name] ELSE "undefined"
\* Lines 136 and 148: isHighest as the scan leaves it, null when no log
\* decodes as ComputeResult and else the isHighest argument of the first.
ScanIsHighest(logs) ==
    LET found == {i \in DOMAIN logs : logs[i].kind = "ComputeResult"}
    IN  IF found = {} THEN "null"
        ELSE DecodedArg(logs[CHOOSE i \in found : \A j \in found : i <= j], "isHighest")

\* The words of the error messages, for `errorMsg.includes(word)`.
WordsOf(msg) ==
    CASE msg = SigningRejectedMsg -> {"User", "rejected", "the", "request"}
      [] msg = SigningDeniedMsg -> {"User", "denied", "transaction", "signature"}
      [] msg = RevertedMsg -> {"execution", "reverted"}
      [] msg = NotFoundMsg -> {"ComputeResult", "not", "found", "in", "logs"}
      [] msg = NotInitializedMsg -> {"Relayer", "not", "initialized"}
      [] msg = WalletNotConnectedMsg -> {"Wallet", "not", "connected"}
      [] OTHER -> {"operation", "failed"}
Includes(msg, word) == word \in WordsOf(msg)

NoToast == [title |-> "", description |-> "", variant |-> "default"]
\* Lines 77-81: the toast shown when no wallet is connected.
WalletToast ==
    [title |-> "Wallet not connected",
     description |-> "Please connect your wallet to submit.",
     variant |-> "destructive"]
\* Lines 176-183: the toast of the catch block.
CatchToast(msg) ==
    [title |-> "Failed to submit potion",
     description |-> IF Includes(msg, "rejected") \/ Includes(msg, "denied")
                     THEN "Transaction was rejected by user."
                     ELSE "Transaction failed. Please try again.",
     variant |-> "destructive"]

\* The state of a flow whose submitPotion call number seq has just begun.
Begun(seq) ==
    [op |-> "submitPotion", seq |-> seq, pc |-> "idle", steps |-> <<>>, done |-> 0,
     writes |-> 0, value |-> 0, status |-> "none", err |-> "", score |-> 0,
     rows |-> 0, toast |-> NoToast, eventInReceipt |-> FALSE, isHighest |-> "null",
     board |-> <<>>]

\* Mutant: a failed call hands back a default score.
RejectedWithDefaultScore(h, msg) ==
    [h EXCEPT !.pc = "idle", !.status = "err", !.err = msg, !.toast = CatchToast(msg),
              !.score = Offset]
\* Mutant: a failed decryption sends the transaction again.
RejectedResubmits(h, msg) ==
    IF h.pc \in {"signTypedData", "getAddress", "userDecrypt"}
    THEN [h EXCEPT !.pc = "writeContract", !.writes = @ + 1]
    ELSE [h EXCEPT !.pc = "idle", !.status = "err", !.err = msg,
                   !.toast = CatchToast(msg)]
\* Lines 174-184: the catch block shows the failure toast and rethrows, the
\* call ends with the error.
Rejected(h, msg) ==
    [h EXCEPT !.pc = "idle", !.status = "err", !.err = msg, !.toast = CatchToast(msg)]

\* Mutant: the flag is left as it is.
FinallySkipped(loading) == loading
\* Lines 67-69 and 185-187: `finally { setIsLoading(false) }`.
Finally(loading) == FALSE

\* Mutant: encryptValue is not awaited, the transaction is sent at once.
CallEncryptValueNoAwait(h) ==
    [h EXCEPT !.pc = "writeContract", !.steps = <<"encrypt", "submit">>,
              !.writes = @ + 1]
\* Lines 88-92: `await encryptValue(...)`.
CallEncryptValue(h) == [h EXCEPT !.pc = "encrypt", !.steps = Append(@, "encrypt")]

\* Lines 112-125: `await walletClient.writeContract(...)`.
CallWriteContract(h) ==
    [h EXCEPT !.pc = "writeContract", !.steps = Append(@, "submit"),
              !.done = @ + 1, !.writes = @ + 1]

\* Mutant: the wallet guard is inside the try block, so that its throw runs
\* the finally block.
SubmitPotionGuardInTry(f, connected) ==
    /\ hook[f].pc = "idle" /\ submits < MaxSubmits
    /\ submits' = submits + 1
    /\ IF ~connected
       THEN /\ hook' = [hook EXCEPT ![f] =
                          [Begun(submits') EXCEPT !.status = "err",
                                                  !.err = WalletNotConnectedMsg,
                                                  !.toast = WalletToast]]
            /\ isLoading' = Finally(isLoading)
       ELSE IF NotInitialized(relayer)
       THEN /\ hook' = [hook EXCEPT ![f] =
                          Rejected(CallEncryptValue(Begun(submits')), NotInitializedMsg)]
            /\ isLoading' = Finally(isLoading)
       ELSE /\ hook' = [hook EXCEPT ![f] = CallEncryptValue(Begun(submits'))]
            /\ isLoading' = TRUE
    /\ UNCHANGED <<chainVars, fheVars, mockVars, udrVars, scanVars>>

\* Lines 75-92: without a wallet the call throws before the try block; else
\* isLoading is set and encryptValue is called, which throws when relayer is
\* null (lib/fhe.ts line 49), the catch and finally blocks then run.
SubmitPotion(f, connected) ==
    /\ hook[f].pc = "idle" /\ submits < MaxSubmits
    /\ submits' = submits + 1
    /\ IF ~connected
       THEN /\ hook' = [hook EXCEPT ![f] =
                          [Begun(submits') EXCEPT !.status = "err",
                                                  !.err = WalletNotConnectedMsg,
                                                  !.toast = WalletToast]]
            /\ UNCHANGED isLoading
       ELSE IF NotInitialized(relayer)
       THEN /\ hook' = [hook EXCEPT ![f] =
                          Rejected(CallEncryptValue(Begun(submits')), NotInitializedMsg)]
            /\ isLoading' = Finally(isLoading)
       ELSE /\ hook' = [hook EXCEPT ![f] = CallEncryptValue(Begun(submits'))]
            /\ isLoading' = TRUE
    /\ UNCHANGED <<chainVars, fheVars, mockVars, udrVars, scanVars>>

\* Line 88 resolves; lines 94-125 format the handles and call writeContract.
EncryptResolves(f) ==
    /\ hook[f].pc = "encrypt"
    /\ hook' = [hook EXCEPT ![f] = CallWriteContract(hook[f])]
    /\ UNCHANGED <<isLoading, submits, chainVars, fheVars, mockVars, udrVars, scanVars>>

\* Line 112 resolves with the transaction hash; line 132 waits for the receipt.
WriteResolves(f) ==
    /\ hook[f].pc = "writeContract"
    /\ hook' = [hook EXCEPT ![f] = [@ EXCEPT !.pc = "waitReceipt",
                                             !.steps = Append(@, "wait"),
                                             !.done = @ + 1]]
    /\ UNCHANGED <<isLoading, submits, chainVars, fheVars, mockVars, udrVars, scanVars>>

\* Line 132 resolves with a receipt (a reverted transaction has one too);
\* lines 135-165 scan its logs, throw when no ComputeResult was found and
\* else ask the provider for a signer.
WaitResolves(f, receipt) ==
    /\ hook[f].pc = "waitReceipt"
    /\ LET value == ScanLogs(receipt.logs)
           scanned == [hook[f] EXCEPT !.steps = Append(@, "scan"), !.done = @ + 1,
                                      !.eventInReceipt = ~NoComputeResult(receipt),
                                      !.isHighest = ScanIsHighest(receipt.logs)]
       IN  IF value = 0
           THEN /\ hook' = [hook EXCEPT ![f] = Rejected(scanned, NotFoundMsg)]
                /\ isLoading' = Finally(isLoading)
           ELSE /\ hook' = [hook EXCEPT ![f] = [scanned EXCEPT !.pc = "getSigner",
                                                               !.done = @ + 1,
                                                               !.value = value]]
                /\ UNCHANGED isLoading
    /\ UNCHANGED <<submits, chainVars, fheVars, mockVars, udrVars, scanVars>>

\* Line 165 resolves; lines 167-171 call requestUserDecryption, which throws
\* when relayer is null and else asks the signer to sign (lib/fhe.ts 73-100).
GetSignerResolves(f) ==
    /\ hook[f].pc = "getSigner"
    /\ LET called == [hook[f] EXCEPT !.steps = Append(@, "decrypt")]
       IN  IF NotInitialized(relayer)
           THEN /\ hook' = [hook EXCEPT ![f] = Rejected(called, NotInitializedMsg)]
                /\ isLoading' = Finally(isLoading)
           ELSE /\ hook' = [hook EXCEPT ![f] = [called EXCEPT !.pc = "signTypedData"]]
                /\ UNCHANGED isLoading
    /\ UNCHANGED <<submits, chainVars, fheVars, mockVars, udrVars, scanVars>>

\* lib/fhe.ts lines 93-111 inside requestUserDecryption: the signature, then
\* the signer's address arrive, then relayer.userDecrypt is called.
DecryptionAdvances(f) ==
    /\ hook[f].pc \in {"signTypedData", "getAddress"}
    /\ hook' = [hook EXCEPT ![f] =
                  [@ EXCEPT !.pc = IF @ = "signTypedData" THEN "getAddress"
                                   ELSE "userDecrypt"]]
    /\ UNCHANGED <<isLoading, submits, chainVars, fheVars, mockVars, udrVars, scanVars>>

\* Lines 167-173 and 185-187: the clear value arrives, the call returns it.
DecryptResolves(f) ==
    /\ hook[f].pc = "userDecrypt"
    /\ hook' = [hook EXCEPT ![f] = [@ EXCEPT !.pc = "idle", !.done = @ + 1,
                                             !.status = "ok",
                                             !.score = ClearOf(hook[f].value)]]
    /\ isLoading' = Finally(isLoading)
    /\ UNCHANGED <<submits, chainVars, fheVars, mockVars, udrVars, scanVars>>

\* The user rejects the wallet's prompt for the transaction (line 112) or for
\* the EIP-712 signature (lib/fhe.ts line 93).
SignatureRejected(f) ==
    /\ hook[f].pc \in {"writeContract", "signTypedData"}
    /\ \E msg \in {SigningRejectedMsg, SigningDeniedMsg} :
          hook' = [hook EXCEPT ![f] = Rejected(hook[f], msg)]
    /\ isLoading' = Finally(isLoading)
    /\ UNCHANGED <<submits, chainVars, fheVars, mockVars, udrVars, scanVars>>

\* The wallet's node refuses the transaction because it would revert.
WriteReverts(f) ==
    /\ hook[f].pc = "writeContract"
    /\ hook' = [hook EXCEPT ![f] = Rejected(hook[f], RevertedMsg)]
    /\ isLoading' = Finally(isLoading)
    /\ UNCHANGED <<submits, chainVars, fheVars, mockVars, udrVars, scanVars>>

\* Any other awaited call rejects (network, relayer or provider failure).
StepFails(f) ==
    /\ hook[f].pc \in {"encrypt", "waitReceipt", "getSigner", "getAddress", "userDecrypt"}
    /\ hook' = [hook EXCEPT ![f] = Rejected(hook[f], OperationFailedMsg)]
    /\ isLoading' = Finally(isLoading)
    /\ UNCHANGED <<submits, chainVars, fheVars, mockVars, udrVars, scanVars>>

\* ---- fetchLeaderboard, lines 36-70.
\* Lines 59-65: the toast of fetchLeaderboard's catch block.
LeaderboardToast ==
    [title |-> "Failed to load leaderboard",
     description |-> "Unable to fetch leaderboard data. Please refresh the page.",
     variant |-> "destructive"]
\* The length of the lists the contract returns: no player yet, or some.
RowCounts == {0, 2}
\* What getAllHighestGuesses returns for a registry of n players: here the
\* players in the reverse order of their addresses, the best of the i-th
\* behind handle i.
ReadResult(n) ==
    [allPlayers |-> [i \in 1..n |-> n + 1 - i], guesses |-> [i \in 1..n |-> i]]
\* What the relayer's publicDecrypt returns: the clear value of each handle
\* it was given, keyed by the handle.
DecryptedMap(guesses) == [h \in {guesses[i] : i \in DOMAIN guesses} |-> ClearOf(h)]
\* Number(x): the number a clear value converts to, NaN for undefined.
NaN == 0 - 1
Number(map, h) == IF h \in DOMAIN map /\ map[h] \in Nat THEN map[h] ELSE NaN
\* Mutant: every player is paired with the first guess.
LeaderboardRowsFirstGuess(allPlayers, guesses, decryptedMap) ==
    [idx \in DOMAIN allPlayers |->
        [player |-> allPlayers[idx], guess |-> Number(decryptedMap, guesses[1])]]
\* Lines 55-58: players.map((player, idx) => ({ player, guess:
\* Number(decryptedMap[guesses[idx]]) })).
LeaderboardRows(allPlayers, guesses, decryptedMap) ==
    [idx \in DOMAIN allPlayers |->
        [player |-> allPlayers[idx], guess |-> Number(decryptedMap, guesses[idx])]]
\* The call returns a list of `rows` entries.
Returned(h, rows) == [h EXCEPT !.pc = "idle", !.status = "ok", !.rows = rows]
\* Lines 58-66: the catch block shows the toast and returns the empty list.
ReturnedEmptyOnError(h) == [Returned(h, 0) EXCEPT !.toast = LeaderboardToast]

\* Lines 36-48: without a public client the call returns [] at once; else
\* isLoading is set and the contract's getAllHighestGuesses is read.
FetchLeaderboard(f, hasClient) ==
    /\ hook[f].pc = "idle" /\ submits < MaxSubmits
    /\ submits' = submits + 1
    /\ IF ~hasClient
       THEN /\ hook' = [hook EXCEPT ![f] =
                          Returned([Begun(submits') EXCEPT !.op = "fetchLeaderboard"], 0)]
            /\ UNCHANGED isLoading
       ELSE /\ hook' = [hook EXCEPT ![f] =
                          [Begun(submits') EXCEPT !.op = "fetchLeaderboard",
                                                  !.pc = "readContract"]]
            /\ isLoading' = TRUE
    /\ UNCHANGED <<chainVars, fheVars, mockVars, udrVars, scanVars>>

\* Lines 43-56: the read resolves with n players and guesses; with none the
\* call returns [], else fetchPublicDecryption is called, which throws when
\* relayer is null (lib/fhe.ts line 124).
ReadResolves(f, n) ==
    /\ hook[f].pc = "readContract"
    /\ IF n = 0
       THEN /\ hook' = [hook EXCEPT ![f] = Returned(hook[f], 0)]
            /\ isLoading' = Finally(isLoading)
       ELSE IF NotInitialized(relayer)
       THEN /\ hook' = [hook EXCEPT ![f] = ReturnedEmptyOnError(hook[f])]
            /\ isLoading' = Finally(isLoading)
       ELSE /\ hook' = [hook EXCEPT ![f] = [@ EXCEPT !.pc = "publicDecrypt", !.rows = n]]
            /\ UNCHANGED isLoading
    /\ UNCHANGED <<submits, chainVars, fheVars, mockVars, udrVars, scanVars>>

\* Lines 55-60: the clear values arrive, one row per player is returned.
PublicDecryptResolves(f) ==
    /\ hook[f].pc = "publicDecrypt"
    /\ LET result == ReadResult(hook[f].rows)
           decryptedMap == DecryptedMap(result.guesses)
       IN  hook' = [hook EXCEPT ![f] =
                      [Returned(hook[f], hook[f].rows) EXCEPT
                          !.board = LeaderboardRows(result.allPlayers, result.guesses,
                                                    decryptedMap)]]
    /\ isLoading' = Finally(isLoading)
    /\ UNCHANGED <<submits, chainVars, fheVars, mockVars, udrVars, scanVars>>

\* The read or the public decryption rejects.
FetchFails(f) ==
    /\ hook[f].pc \in {"readContract", "publicDecrypt"}
    /\ hook' = [hook EXCEPT ![f] = ReturnedEmptyOnError(hook[f])]
    /\ isLoading' = Finally(isLoading)
    /\ UNCHANGED <<submits, chainVars, fheVars, mockVars, udrVars, scanVars>>

\* App.tsx lines 21-30: the application calls initializeFHE once, when it
\* mounts; the hook's flows never call it.
AppInitializes ==
    \/ ext.started = 0 /\ StartInit(1, "initializeFHE")
    \/ InitSDKResolves(1)
    \/ CreateInstanceResolves(1)
    \/ InitRejects(1)

\* ------------------------------- lib/fhe.ts requestUserDecryption
\* One call followed in full: what is signed, what is sent to the relayer and
\* what the relayer, which reads the chain's ACL, answers.
DurationDays == 10
Times == 1..2
AuthorizationFailedMsg == "not authorized to decrypt"
ProtocolOrder ==
    <<"generateKeypair", "createEIP712", "signTypedData", "getAddress", "userDecrypt">>
NoPayload == [publicKey |-> 0, contracts |-> <<>>, start |-> 0, days |-> 0]
NoSignature == [by |-> 0, over |-> NoPayload]
NoArgs ==
    [handles |-> <<>>, privateKey |-> 0, publicKey |-> 0, signature |-> NoSignature,
     contracts |-> <<>>, user |-> 0, start |-> 0, days |-> 0]
UdrIdle ==
    [pc |-> "idle", handle |-> 0, contract |-> 0, signer |-> 0, keypair |-> 0,
     payload |-> NoPayload, signature |-> NoSignature, args |-> NoArgs,
     calls |-> <<>>, status |-> "none", val |-> 0, err |-> ""]

\* Lines 86-91: relayer.createEIP712(publicKey, contractAddresses,
\* startTimeStamp, durationDays).
createEIP712(publicKey, contractAddresses, startTimeStamp, durationDays) ==
    [publicKey |-> publicKey, contracts |-> contractAddresses,
     start |-> startTimeStamp, days |-> durationDays]

\* Mutant: the validity window sent to the relayer is computed anew.
UserDecryptArgsNewWindow(r, address) ==
    [handles |-> <<[handle |-> r.handle, contractAddress |-> r.contract]>>,
     privateKey |-> r.keypair, publicKey |-> r.keypair,
     signature |-> r.signature, contracts |-> <<r.contract>>,
     user |-> address, start |-> r.payload.start + 1, days |-> DurationDays]
\* Lines 102-111: the arguments of relayer.userDecrypt, from the locals of the
\* call r and the address the signer reported.
UserDecryptArgs(r, address) ==
    [handles |-> <<[handle |-> r.handle, contractAddress |-> r.contract]>>,
     privateKey |-> r.keypair, publicKey |-> r.keypair,
     signature |-> r.signature, contracts |-> <<r.contract>>,
     user |-> address, start |-> r.payload.start, days |-> DurationDays]

\* The relayer releases a plaintext when the signature is the user's, covers
\* the key, contracts and window of the request, and the ACL holds a grant on
\* the handle for the user and for the contract.
RelayerAuthorizes(args) ==
    /\ args.signature.by = args.user
    /\ args.signature.over =
          createEIP712(args.publicKey, args.contracts, args.start, args.days)
    /\ \A i \in DOMAIN args.handles :
          /\ UserDecryptOk(args.handles[i].handle, args.user)
          /\ <<args.handles[i].handle, args.handles[i].contractAddress>> \in allowed
          /\ <<args.handles[i].contractAddress>> = args.contracts

UdrFails(msg) ==
    /\ udr' = [udr EXCEPT !.pc = "idle", !.status = "err", !.err = msg]
    /\ UNCHANGED <<decrypts, chainVars, fheVars, hookVars, mockVars, scanVars>>

\* Lines 68-100: the guard, the key pair, the payload with the current time
\* and ten days, and the request to sign it.
RequestUserDecryption(contractAddress, signer, ciphertextHandle, now) ==
    /\ udr.pc = "idle" /\ decrypts < MaxDecrypts
    /\ decrypts' = decrypts + 1
    /\ IF NotInitialized(relayer)
       THEN udr' = [UdrIdle EXCEPT !.handle = ciphertextHandle,
                                   !.contract = contractAddress, !.signer = signer,
                                   !.status = "err", !.err = NotInitializedMsg]
       ELSE udr' = [UdrIdle EXCEPT
                      !.pc = "signTypedData", !.handle = ciphertextHandle,
                      !.contract = contractAddress, !.signer = signer,
                      !.keypair = decrypts',
                      !.payload = createEIP712(decrypts', <<contractAddress>>, now,
                                               DurationDays),
                      !.calls = <<"generateKeypair", "createEIP712", "signTypedData">>]
    /\ UNCHANGED <<chainVars, fheVars, hookVars, mockVars, scanVars>>

\* Line 93 resolves with the signer's signature over the payload; line 108
\* asks the signer for its address.
SignatureObtained ==
    /\ udr.pc = "signTypedData"
    /\ udr' = [udr EXCEPT !.pc = "getAddress",
                          !.signature = [by |-> udr.signer, over |-> udr.payload],
                          !.calls = Append(@, "getAddress")]
    /\ UNCHANGED <<decrypts, chainVars, fheVars, hookVars, mockVars, scanVars>>

\* Line 93 rejects: the user declined to sign.
SignatureDeclined ==
    /\ udr.pc = "signTypedData"
    /\ \E msg \in {SigningRejectedMsg, SigningDeniedMsg} : UdrFails(msg)

\* Line 108 resolves with the signer's address; line 102 calls userDecrypt.
AddressObtained ==
    /\ udr.pc = "getAddress"
    /\ udr' = [udr EXCEPT !.pc = "userDecrypt",
                          !.args = UserDecryptArgs(udr, udr.signer),
                          !.calls = Append(@, "userDecrypt")]
    /\ UNCHANGED <<decrypts, chainVars, fheVars, hookVars, mockVars, scanVars>>

\* Lines 102-115: the relayer answers: the plaintext of the handle when the
\* request is authorized, an error when it is not.
RelayerAnswers ==
    /\ udr.pc = "userDecrypt"
    /\ IF RelayerAuthorizes(udr.args)
       THEN /\ udr' = [udr EXCEPT !.pc = "idle", !.status = "ok",
                                  !.val = plain[udr.handle]]
            /\ UNCHANGED <<decrypts, chainVars, fheVars, hookVars, mockVars, scanVars>>
       ELSE UdrFails(AuthorizationFailedMsg)

\* The provider or the relayer cannot be reached.
UdrUnavailable ==
    /\ udr.pc \in {"getAddress", "userDecrypt"}
    /\ UdrFails(OperationFailedMsg)

\* ------------------------------------------------ lib/contract.ts
\* The development stand-in for the contract: submitPotion waits 1.5 s,
\* installs a listener whose stand-in event fires after 2 s, and a 30 s
\* timer.  Timers of one flow fire in the order of their delays; a pending
\* continuation of an await runs before any timer.
MockScoreBase == 500
MockScoreRange == 3000
MockScores == {MockScoreBase, MockScoreBase + MockScoreRange - 1}
TimeoutMsg == "Timeout waiting for result"
\* An address as a string: which account it names and whether it is written
\* with capital letters; hex 0 is the absent (undefined) address.
NoAddress == [hex |-> 0, mixed |-> FALSE]
UserAddresses == {NoAddress} \cup [hex : 1..2, mixed : BOOLEAN]
\* Line 145: the address the stand-in event carries.
MockAddress == [hex |-> 1, mixed |-> TRUE]
\* Mutant: the case of the letters is kept.
toLowerCaseKeepsCase(a) == a
toLowerCase(a) == [a EXCEPT !.mixed = FALSE]
\* Line 182: the event is for another user.
NotForUser(userAddress, address) ==
    userAddress # NoAddress /\ toLowerCase(address) # toLowerCase(userAddress)

Unsettled == [status |-> "none", success |-> FALSE, score |-> 0, error |-> ""]
\* resolve(...) of the promise of line 178: only the first call counts.
Resolve(out, success, score, error) ==
    IF out.status = "none"
    THEN [status |-> "resolved", success |-> success, score |-> score, error |-> error]
    ELSE out

\* Mutant: the 30-second timer is not armed.
ListenTimersNoTimeout == {"event"}
\* Lines 143 and 204: the timers armed when the listener is installed.
ListenTimers == {"event", "timeout"}

\* Lines 149-154: cleanup() clears the stand-in event's timer.
Cleanup(timers) == timers \ {"event"}

MicrotaskPending == \E g \in Flow : mock[g].decrypting
MockQuiet(f) == mock[f].pc = "idle" /\ mock[f].timers = {} /\ ~mock[f].decrypting

\* Lines 161-175: the call starts and awaits the 1.5 s delay.
MockSubmit(f, userAddress) ==
    /\ MockQuiet(f) /\ mockCalls < MaxSubmits
    /\ mockCalls' = mockCalls + 1
    /\ mock' = [mock EXCEPT ![f] =
                  [pc |-> "delay", user |-> userAddress, timers |-> {"delay"},
                   decrypting |-> FALSE, processed |-> FALSE, cleanups |-> 0,
                   out |-> Unsettled]]
    /\ UNCHANGED <<chainVars, fheVars, hookVars, udrVars, scanVars>>

\* Lines 175-211: the delay is over; the promise is created, the listener
\* installed and the 30 s timer armed.
DelayFires(f) ==
    /\ "delay" \in mock[f].timers /\ ~MicrotaskPending
    /\ mock' = [mock EXCEPT ![f] = [@ EXCEPT !.pc = "listening", !.timers = ListenTimers]]
    /\ UNCHANGED <<mockCalls, chainVars, fheVars, hookVars, udrVars, scanVars>>

\* Lines 143-146 and 179-187: the stand-in event fires; the callback returns
\* when the event is for another user and else awaits decryptResult.
MockEventFires(f) ==
    /\ "event" \in mock[f].timers /\ ~MicrotaskPending
    /\ mock' = [mock EXCEPT ![f] =
                  [@ EXCEPT !.timers = @ \ {"event"},
                            !.decrypting = ~NotForUser(mock[f].user, MockAddress)]]
    /\ UNCHANGED <<mockCalls, chainVars, fheVars, hookVars, udrVars, scanVars>>

\* Lines 84-96 and 187-193: decryptResult returns its random score; the
\* callback calls cleanup and resolves with success.
DecryptReturns(f, score) ==
    /\ mock[f].decrypting
    /\ mock' = [mock EXCEPT ![f] =
                  [@ EXCEPT !.decrypting = FALSE, !.processed = TRUE,
                            !.pc = "idle",
                            !.timers = Cleanup(@), !.cleanups = @ + 1,
                            !.out = Resolve(@, TRUE, score, "")]]
    /\ UNCHANGED <<mockCalls, chainVars, fheVars, hookVars, udrVars, scanVars>>

\* Lines 204-210: the 30 s timer fires (after the 2 s one, if that is still
\* pending): cleanup is called and the promise resolved with the timeout.
TimeoutFires(f) ==
    /\ "timeout" \in mock[f].timers /\ "event" \notin mock[f].timers
    /\ ~MicrotaskPending
    /\ mock' = [mock EXCEPT ![f] =
                  [@ EXCEPT !.pc = "idle",
                            !.timers = Cleanup(@ \ {"timeout"}), !.cleanups = @ + 1,
                            !.out = Resolve(@, FALSE, 0, TimeoutMsg)]]
    /\ UNCHANGED <<mockCalls, chainVars, fheVars, hookVars, udrVars, scanVars>>

\* --------------------------------- usePotionContract: the log scan
\* Lines 135-156 followed one statement at a time on one receipt: the loop
\* over receipt.logs, its try/catch, its break, and the check after it.
ScanInputs == UNION {[1..n -> Logs] : n \in 0..MaxScanLogs}
ScanIdle ==
    [pc |-> "idle", logs |-> <<>>, i |-> 1, value |-> 0, isHighest |-> "null"]

\* Lines 135-138: value and isHighest start as null, the loop begins.
ScanBegins(logs) ==
    /\ scan.pc = "idle"
    /\ scan' = [ScanIdle EXCEPT !.pc = "loop", !.logs = logs]
    /\ UNCHANGED <<chainVars, fheVars, hookVars, mockVars, udrVars>>

\* Lines 140-144 and 151-153: decodeEventLog throws, the catch continues
\* with the next log.
ScanDecodeThrows ==
    /\ scan.pc = "loop" /\ scan.i <= Len(scan.logs)
    /\ scan.logs[scan.i].kind = "Undecodable"
    /\ scan' = [scan EXCEPT !.i = @ + 1]
    /\ UNCHANGED <<chainVars, fheVars, hookVars, mockVars, udrVars>>

\* Line 146: the log decodes to another event, the loop goes on.
ScanOtherEvent ==
    /\ scan.pc = "loop" /\ scan.i <= Len(scan.logs)
    /\ scan.logs[scan.i].kind = "OtherEvent"
    /\ scan' = [scan EXCEPT !.i = @ + 1]
    /\ UNCHANGED <<chainVars, fheVars, hookVars, mockVars, udrVars>>

\* Mutant: the loop does not break on a ComputeResult.
ScanComputeResultNoBreak ==
    /\ scan.pc = "loop" /\ scan.i <= Len(scan.logs)
    /\ scan.logs[scan.i].kind = "ComputeResult"
    /\ scan' = [scan EXCEPT !.value = DecodedArg(scan.logs[scan.i], "value"),
                            !.isHighest = DecodedArg(scan.logs[scan.i], "isHighest"),
                            !.i = @ + 1]
    /\ UNCHANGED <<chainVars, fheVars, hookVars, mockVars, udrVars>>

\* Lines 146-150: the log is a ComputeResult; value and isHighest are read
\* from its arguments and the loop is left.
ScanComputeResult ==
    /\ scan.pc = "loop" /\ scan.i <= Len(scan.logs)
    /\ scan.logs[scan.i].kind = "ComputeResult"
    /\ scan' = [scan EXCEPT !.value = DecodedArg(scan.logs[scan.i], "value"),
                            !.isHighest = DecodedArg(scan.logs[scan.i], "isHighest"),
                            !.pc = "after"]
    /\ UNCHANGED <<chainVars, fheVars, hookVars, mockVars, udrVars>>

\* Line 138: no log is left.
ScanExhausted ==
    /\ scan.pc = "loop" /\ scan.i > Len(scan.logs)
    /\ scan' = [scan EXCEPT !.pc = "after"]
    /\ UNCHANGED <<chainVars, fheVars, hookVars, mockVars, udrVars>>

\* Line 156: value == null throws; else the call goes on to decryption.
ScanChecked ==
    /\ scan.pc = "after"
    /\ scan' = [scan EXCEPT !.pc = IF scan.value = 0 THEN "thrown" ELSE "found"]
    /\ UNCHANGED <<chainVars, fheVars, hookVars, mockVars, udrVars>>

InitChain ==
    /\ players = <<>>
    /\ hasPlayed = [a \in Address |-> FALSE]
    /\ highestPlayerGuess = [a \in Address |-> 0]
    /\ plain = <<>>
    /\ allowed = {}
    /\ publicDecryptable = {}
    /\ events = <<>>
    /\ txlog = <<>>
    /\ lastCall = [sender |-> This, ok |-> FALSE,
                   att |-> [covers |-> {}, contract |-> This, user |-> 1],
                   inputs |-> <<>>, base |-> 0, h |-> NoHandles]

\* Line 11: `let relayer = null`; no call has been made.
InitFhe ==
    /\ relayer = 0
    /\ fhe = [c \in Caller |-> Idle("none", 0, "none", 0, "")]
    /\ ext = [started |-> 0, initSDK |-> 0, createInstance |-> 0, initFailed |-> 0,
              relayerOps |-> 0, signerOps |-> 0]

\* Line 31: `useState(false)`; no submitPotion call has been made.
InitHook ==
    /\ hook = [f \in Flow |-> Begun(0)]
    /\ isLoading = FALSE
    /\ submits = 0

\* No call of lib/contract.ts submitPotion has been made.
InitMock ==
    /\ mock = [f \in Flow |->
                 [pc |-> "idle", user |-> NoAddress, timers |-> {},
                  decrypting |-> FALSE, processed |-> FALSE, cleanups |-> 0,
                  out |-> Unsettled]]
    /\ mockCalls = 0

InitUdr == udr = UdrIdle /\ decrypts = 0

InitScan == scan = ScanIdle

Init == InitChain /\ InitFhe /\ InitHook /\ InitMock /\ InitUdr /\ InitScan

\* The contract alone: compute transactions by any sender.
Next ==
    \E sender \in Address, in \in Quintuples, attestation \in Attestations :
        Compute(sender, in, attestation) /\ UNCHANGED <<fheVars, hookVars, mockVars, udrVars, scanVars>>

Spec == Init /\ [][Next]_vars

\* lib/fhe.ts alone: client flows calling its functions concurrently.
NextFhe ==
    \E c \in Caller :
        \/ \E fn \in InitFns : StartInit(c, fn)
        \/ InitSDKResolves(c)
        \/ CreateInstanceResolves(c)
        \/ GetInstanceResumes(c)
        \/ InitRejects(c)
        \/ \E fn \in GuardedFns : StartGuarded(c, fn)
        \/ SignResolves(c)
        \/ AddressResolves(c)
        \/ RelayerResolves(c)
        \/ GuardedRejects(c)

SpecFhe == Init /\ [][NextFhe]_vars

\* lib/fhe.ts called sequentially: a call is made only when no other call
\* is in progress, as by an application that awaits each call.
NoCallInProgress == \A d \in Caller : fhe[d].pc = "idle"
NextFheSeq ==
    \E c \in Caller :
        \/ NoCallInProgress /\ \E fn \in InitFns : StartInit(c, fn)
        \/ InitSDKResolves(c)
        \/ CreateInstanceResolves(c)
        \/ GetInstanceResumes(c)
        \/ InitRejects(c)
        \/ NoCallInProgress /\ \E fn \in GuardedFns : StartGuarded(c, fn)
        \/ SignResolves(c)
        \/ AddressResolves(c)
        \/ RelayerResolves(c)
        \/ GuardedRejects(c)

SpecFheSeq == Init /\ [][NextFheSeq]_vars

\* The hook's submitPotion flows, with the application's initialization.
NextHook ==
    \/ AppInitializes
    \/ \E f \in Flow :
        \/ \E connected \in BOOLEAN : SubmitPotion(f, connected)
        \/ EncryptResolves(f)
        \/ WriteResolves(f)
        \/ \E receipt \in Receipts : WaitResolves(f, receipt)
        \/ GetSignerResolves(f)
        \/ DecryptionAdvances(f)
        \/ DecryptResolves(f)
        \/ SignatureRejected(f)
        \/ WriteReverts(f)
        \/ StepFails(f)
        \/ \E hasClient \in BOOLEAN : FetchLeaderboard(f, hasClient)
        \/ \E n \in RowCounts : ReadResolves(f, n)
        \/ PublicDecryptResolves(f)
        \/ FetchFails(f)

SpecHook == Init /\ [][NextHook]_vars

\* What the runtime settles without the user or the chain: the promises of
\* the calls to the relayer SDK and to the provider (encrypt, getSigner,
\* getAddress, userDecrypt, readContract, publicDecrypt) resolve or reject.  The wallet prompts (lines
\* 112 and lib/fhe.ts 93) wait for the user and the receipt (line 132) waits
\* for the chain: submitPotion arms no timer for either.
RuntimeSettles(f) ==
    /\ hook[f].pc \in {"encrypt", "getSigner", "getAddress", "userDecrypt",
                      "readContract", "publicDecrypt"}
    /\ \/ EncryptResolves(f)
       \/ GetSignerResolves(f)
       \/ DecryptionAdvances(f)
       \/ DecryptResolves(f)
       \/ StepFails(f)
       \/ \E n \in RowCounts : ReadResolves(f, n)
       \/ PublicDecryptResolves(f)
       \/ FetchFails(f)

SpecHookLive == SpecHook /\ \A f \in Flow : WF_vars(RuntimeSettles(f))

\* lib/contract.ts submitPotion; the runtime fires every armed timer and
\* runs every pending continuation.
NextMock ==
    \E f \in Flow :
        \/ \E userAddress \in UserAddresses : MockSubmit(f, userAddress)
        \/ DelayFires(f)
        \/ MockEventFires(f)
        \/ \E score \in MockScores : DecryptReturns(f, score)
        \/ TimeoutFires(f)

SpecMock ==
    /\ Init /\ [][NextMock]_vars
    /\ \A f \in Flow :
          /\ WF_vars(DelayFires(f))
          /\ WF_vars(MockEventFires(f))
          /\ WF_vars(\E score \in MockScores : DecryptReturns(f, score))
          /\ WF_vars(TimeoutFires(f))

\* Private decryption against the chain, once the application's
\* initializeFHE has returned: compute transactions as the hook sends them
\* (ciphertexts attested for the contract and the sender) and requests to
\* decrypt the emitted result handles.
InitDecrypt ==
    /\ InitChain /\ InitHook /\ InitMock /\ InitUdr /\ InitScan
    /\ relayer = 1
    /\ fhe = [c \in Caller |-> IF c = 1 THEN Idle("initializeFHE", 1, "ok", 1, "")
                                ELSE Idle("none", 0, "none", 0, "")]
    /\ ext = [started |-> 1, initSDK |-> 1, createInstance |-> 1, initFailed |-> 0,
              relayerOps |-> 0, signerOps |-> 0]

DecryptQuintuples == {<<1, 2, 3, 4, 5>>}
EmittedHandles == {events[i] : i \in DOMAIN events}

NextDecrypt ==
    \/ \E sender \in Address, in \in DecryptQuintuples :
          /\ Compute(sender, in,
                     [covers |-> 1..NumInputs, contract |-> This, user |-> sender])
          /\ UNCHANGED <<fheVars, hookVars, mockVars, udrVars, scanVars>>
    \/ \E signer \in Address, h \in EmittedHandles, now \in Times :
          RequestUserDecryption(This, signer, h, now)
    \/ SignatureObtained
    \/ SignatureDeclined
    \/ AddressObtained
    \/ RelayerAnswers
    \/ UdrUnavailable

SpecDecrypt == InitDecrypt /\ [][NextDecrypt]_vars

\* The log scan of one receipt, on every receipt of up to MaxScanLogs logs.
NextScan ==
    \/ \E logs \in ScanInputs : ScanBegins(logs)
    \/ ScanDecodeThrows
    \/ ScanOtherEvent
    \/ ScanComputeResult
    \/ ScanExhausted
    \/ ScanChecked

SpecScan == Init /\ [][NextScan]_vars

\* -----------------------------------------------------------------
\* Properties
\* -----------------------------------------------------------------
LastTx == txlog[Len(txlog)]
\* The step is a compute transaction (txlog grew by one entry).
TxStep == Len(txlog') = Len(txlog) + 1
OkStep == TxStep /\ txlog'[Len(txlog')].ok
FailedStep == TxStep /\ ~txlog'[Len(txlog')].ok
\* Successful compute calls made by address a so far.
OkCallsOf(a) == {i \in DOMAIN txlog : txlog[i].ok /\ txlog[i].sender = a}
OkCalls == {i \in DOMAIN txlog : txlog[i].ok}
\* The decrypted best score of a; 0 before its first call.
DecryptedBest(a) ==
    IF highestPlayerGuess[a] = 0 THEN 0 ELSE plain[highestPlayerGuess[a]]
PlainFormula(in) == (in[1] + in[2] + in[3] + in[4] + in[5]) * 14 + 300
\* The attestation is the one made for these five handles, this contract
\* and this submitter.
AttestationValid(att, sender) ==
    att.covers = 1..5 /\ att.contract = This /\ att.user = sender

\* Byte values tried in each of the five positions of the pure pipeline.
ByteSamples == {0, 1, 128, 255}
\* The pipeline alone, on every quintuple over ByteSamples: its result
\* ciphertext holds the plaintext formula.
ScoreOnSamples ==
    \A q \in [1..5 -> ByteSamples] :
        LET sc == ScorePipeline(q, 1, 2, 3, 4, 5)
        IN  sc.mem[sc.result] = PlainFormula(q)

\* C1: after a successful compute call on the byte quintuple (a,b,c,d,e),
\* the returned handle and the handle of the emitted ComputeResult event are
\* the same handle, and its plaintext is (a+b+c+d+e)*14 + 300.
C1_ResultIsFormula ==
    /\ ScoreOnSamples
    /\ (Len(txlog) > 0 /\ lastCall.ok) =>
          /\ LastTx.ret \in Handles
          /\ plain[LastTx.ret] = PlainFormula(lastCall.inputs)
          /\ Len(events) > 0
          /\ events[Len(events)] = LastTx.ret

C1_Witness ==
    /\ Len(txlog) > 0 /\ lastCall.ok
    /\ lastCall.inputs = <<255, 255, 255, 255, 255>>
    /\ plain[events[Len(events)]] = 18150

\* C2: a successful compute call by p leaves p's decrypted best equal to
\* max(p's decrypted best before the call, the call's result), the best
\* before p's first successful call being 0; and no step decreases the
\* decrypted best of any address.
C2_BestIsMax ==
    [][\A p \in Address :
         /\ (OkStep /\ txlog'[Len(txlog')].sender = p) =>
              LET before == IF OkCallsOf(p) = {} THEN 0
                            ELSE plain[highestPlayerGuess[p]]
              IN  DecryptedBest(p)' = Max(before, plain'[txlog'[Len(txlog')].ret])
         /\ DecryptedBest(p)' >= DecryptedBest(p) ]_vars

C2_Witness ==
    /\ Len(txlog) > 1 /\ lastCall.ok
    /\ Cardinality(OkCallsOf(lastCall.sender)) >= 2
    /\ plain[lastCall.h.result] < plain[lastCall.h.prevBest]
    /\ DecryptedBest(lastCall.sender) = plain[lastCall.h.prevBest]

\* C3: hasPlayed[addr] is true iff addr occurs exactly once in players, and
\* an address whose flag is false occurs in players zero times.
C3_HasPlayedIffListedOnce ==
    \A addr \in Address :
        /\ hasPlayed[addr] <=> Occurrences(players, addr) = 1
        /\ ~hasPlayed[addr] => Occurrences(players, addr) = 0

C3_Witness ==
    \E a, b \in Address :
        /\ hasPlayed[a] /\ Cardinality(OkCallsOf(a)) >= 2
        /\ Occurrences(players, a) = 1
        /\ ~hasPlayed[b] /\ Occurrences(players, b) = 0

\* C4: the first successful compute call of an address makes players one
\* longer; every later successful call of that address leaves its length
\* as it is.
C4_RegisteredOnce ==
    [][OkStep =>
         LET p == txlog'[Len(txlog')].sender
         IN  Len(players') = Len(players) + (IF OkCallsOf(p) = {} THEN 1 ELSE 0)]_vars

C4_Witness ==
    \E a \in Address :
        /\ Cardinality(OkCallsOf(a)) >= 2
        /\ Len(players) = 1

\* C5: a compute call whose attestation does not validate (it does not cover
\* the five handles, or was made for another contract or another submitter)
\* fails and changes nothing: players, hasPlayed, highestPlayerGuess, the
\* grants, the public-decryptable set, the event log and the ciphertext table
\* are as before, and the caller's registration is as before.
C5_InvalidAttestationNoEffect ==
    [][(TxStep /\ ~AttestationValid(lastCall'.att, lastCall'.sender)) =>
         /\ ~txlog'[Len(txlog')].ok
         /\ players' = players
         /\ hasPlayed' = hasPlayed
         /\ highestPlayerGuess' = highestPlayerGuess
         /\ allowed' = allowed
         /\ publicDecryptable' = publicDecryptable
         /\ events' = events
         /\ plain' = plain]_vars

C5_Witness ==
    /\ Len(txlog) > 1 /\ ~lastCall.ok
    /\ lastCall.att.user # lastCall.sender
    /\ lastCall.att.contract = This /\ lastCall.att.covers = 1..5
    /\ ~hasPlayed[lastCall.sender]
    /\ Len(players) = 1 /\ Len(events) = 1

\* C6: every handle getAllHighestGuesses returns is a minted handle marked
\* publicly decryptable, so public decryption of the whole list succeeds.
C6_LeaderboardPublic ==
    LET g == getAllHighestGuesses.guesses
    IN  /\ Len(g) = Len(getAllHighestGuesses.allPlayers)
        /\ \A i \in DOMAIN g : g[i] \in Handles /\ g[i] \in publicDecryptable
        /\ PublicDecryptOk(g)

C6_Witness ==
    /\ Len(getAllHighestGuesses.guesses) = 2
    /\ Len(txlog) = 3 /\ Cardinality(OkCalls) = 3
    /\ PublicDecryptOk(getAllHighestGuesses.guesses)

\* The handles compute returned or stored as a best, over all successful calls.
ResultOrBestHandles ==
    {txlog[i].ret : i \in OkCalls} \cup {txlog[i].best : i \in OkCalls}
NoGrant(h) == \A a \in Principal \cup {OtherContract} : <<h, a>> \notin allowed

\* C7: a handle with no grant and no public mark can be decrypted by no
\* principal, privately or publicly; and every handle other than the results
\* and stored bests of successful calls is such a handle - in particular the
\* sum, scaled and isHigher handles of a successful compute.
C7_DefaultDeny ==
    /\ \A h \in Handles :
          (NoGrant(h) /\ h \notin publicDecryptable) =>
              /\ \A a \in Principal \cup {OtherContract} : ~UserDecryptOk(h, a)
              /\ ~PublicDecryptOk(<<h>>)
    /\ \A h \in Handles \ ResultOrBestHandles :
          NoGrant(h) /\ h \notin publicDecryptable
    /\ (Len(txlog) > 0 /\ lastCall.ok) =>
          {lastCall.h.sum, lastCall.h.scaled, lastCall.h.isHigher}
              \subseteq Handles \ ResultOrBestHandles

C7_Witness ==
    /\ Len(txlog) > 0 /\ lastCall.ok
    /\ \A h \in {lastCall.h.sum, lastCall.h.scaled, lastCall.h.isHigher} :
          /\ h \in Handles /\ NoGrant(h)
          /\ \A a \in Principal : ~UserDecryptOk(h, a)
          /\ ~PublicDecryptOk(<<h>>)
    /\ UserDecryptOk(lastCall.h.result, lastCall.sender)

\* C8: a successful compute by P adds exactly the grants (result, contract),
\* (new best, contract), (result, P), (new best, P) and exactly the public
\* mark of the new best; the result handle is not the best handle and is
\* never public, and nobody but P and the contract is granted on a result
\* or best handle of P's call.
C8_ExactGrants ==
    /\ [][\A p \in Address :
            (OkStep /\ txlog'[Len(txlog')].sender = p) =>
               LET ret == txlog'[Len(txlog')].ret
                   best == highestPlayerGuess'[p]
               IN  /\ ret # best
                   /\ allowed' \ allowed =
                        {<<ret, This>>, <<best, This>>, <<ret, p>>, <<best, p>>}
                   /\ allowed \subseteq allowed'
                   /\ publicDecryptable' \ publicDecryptable = {best}]_vars
    /\ [](\A i \in OkCalls :
            /\ txlog[i].ret \notin publicDecryptable
            /\ \A a \in Principal \cup {OtherContract} :
                 (<<txlog[i].ret, a>> \in allowed \/ <<txlog[i].best, a>> \in allowed)
                     => a \in {This, txlog[i].sender})

C8_Witness ==
    /\ Cardinality(OkCalls) >= 2
    /\ Cardinality({txlog[i].sender : i \in OkCalls}) = 2
    /\ lastCall.ok
    /\ <<lastCall.h.result, lastCall.sender>> \in allowed
    /\ <<lastCall.h.newBest, This>> \in allowed
    /\ lastCall.h.newBest \in publicDecryptable
    /\ lastCall.h.result \notin publicDecryptable

\* C9: no step removes a grant or a public-decryptable mark.
C9_GrantsMonotonic ==
    [][allowed \subseteq allowed' /\ publicDecryptable \subseteq publicDecryptable']_vars

C9_Witness ==
    /\ Cardinality(OkCalls) = 3
    /\ Cardinality({txlog[i].sender : i \in OkCalls}) = 2
    /\ \A i \in OkCalls :
          /\ txlog[i].best \in publicDecryptable
          /\ <<txlog[i].ret, txlog[i].sender>> \in allowed

\* The ret handles of the successful calls, in call order.
RECURSIVE OkRets(_)
OkRets(log) ==
    IF log = <<>> THEN <<>>
    ELSE LET rest == OkRets(SubSeq(log, 1, Len(log) - 1))
             last == log[Len(log)]
         IN  IF last.ok THEN Append(rest, last.ret) ELSE rest

\* C10: a successful compute appends exactly one ComputeResult event, whose
\* argument is the result handle and not the stored best; a failed call
\* appends none; so the events are the results of the successful calls.
C10_OneEventPerSuccess ==
    /\ [][/\ OkStep =>
               /\ events' = Append(events, lastCall'.h.result)
               /\ lastCall'.h.result = txlog'[Len(txlog')].ret
               /\ lastCall'.h.result # highestPlayerGuess'[lastCall'.sender]
          /\ FailedStep => events' = events]_vars
    /\ [](events = OkRets(txlog) /\ Len(events) = Cardinality(OkCalls))

C10_Witness ==
    /\ Len(txlog) = 3 /\ Cardinality(OkCalls) = 2 /\ Len(events) = 2
    /\ ~lastCall.ok

\* The successful compute calls of address p, in call order.
OkSeqOf(p) ==
    LET IsOkOfP(e) == e.ok /\ e.sender = p
    IN  SelectSeq(txlog, IsOkOfP)

\* C11: a never-played player P submitting [1,2,3,4,5] gets 510 and best 510;
\* then [0,0,0,0,0] gives 300 and the best stays 510; then
\* [50,50,50,50,50] gives 3800 and the best becomes 3800; P is listed once
\* throughout.  (The stored best is compared while that call is P's latest.)
C11_Scenario ==
    \A p \in Address :
        LET s == OkSeqOf(p)
            first == Len(s) >= 1 /\ s[1].in = <<1, 2, 3, 4, 5>>
            second == first /\ Len(s) >= 2 /\ s[2].in = <<0, 0, 0, 0, 0>>
            third == second /\ Len(s) >= 3 /\ s[3].in = <<50, 50, 50, 50, 50>>
        IN  /\ first =>
                /\ plain[s[1].ret] = 510 /\ plain[s[1].best] = 510
                /\ Len(s) = 1 => DecryptedBest(p) = 510
                /\ Occurrences(players, p) = 1
            /\ second =>
                /\ plain[s[2].ret] = 300 /\ plain[s[2].best] = 510
                /\ Len(s) = 2 => DecryptedBest(p) = 510
            /\ third =>
                /\ plain[s[3].ret] = 3800 /\ plain[s[3].best] = 3800
                /\ Len(s) = 3 => DecryptedBest(p) = 3800

C11_Witness ==
    \E p \in Address :
        LET s == OkSeqOf(p)
        IN  /\ Len(s) = 3
            /\ s[1].in = <<1, 2, 3, 4, 5>> /\ s[2].in = <<0, 0, 0, 0, 0>>
            /\ s[3].in = <<50, 50, 50, 50, 50>>
            /\ DecryptedBest(p) = 3800 /\ plain[s[2].best] = 510
            /\ Occurrences(players, p) = 1

\* The senders of the successful calls in the order of their first success.
RECURSIVE FirstPlayOrder(_)
FirstPlayOrder(log) ==
    IF log = <<>> THEN <<>>
    ELSE LET rest == FirstPlayOrder(SubSeq(log, 1, Len(log) - 1))
             last == log[Len(log)]
         IN  IF last.ok /\ \A i \in DOMAIN rest : rest[i] # last.sender
             THEN Append(rest, last.sender) ELSE rest
OkSenders == {txlog[i].sender : i \in OkCalls}
IsPrefix(s, t) == Len(s) <= Len(t) /\ \A i \in DOMAIN s : s[i] = t[i]

\* C12: getAllHighestGuesses returns two sequences of equal length, guesses[i]
\* being the stored best handle of allPlayers[i]; allPlayers is the first-play
\* order, and a step in which no new player joins leaves it as it was.
C12_ParallelLists ==
    /\ [](LET g == getAllHighestGuesses
          IN  /\ Len(g.guesses) = Len(g.allPlayers)
              /\ \A i \in 1..Len(g.allPlayers) :
                    g.guesses[i] = highestPlayerGuess[g.allPlayers[i]]
              /\ g.allPlayers = FirstPlayOrder(txlog))
    /\ [][OkSenders' = OkSenders =>
            getAllHighestGuesses'.allPlayers = getAllHighestGuesses.allPlayers]_vars

C12_Witness ==
    /\ Len(getAllHighestGuesses.allPlayers) = 2
    /\ Cardinality(OkCalls) = 3
    /\ getAllHighestGuesses.guesses[1] # getAllHighestGuesses.guesses[2]
    /\ lastCall.ok /\ lastCall.sender = getAllHighestGuesses.allPlayers[1]

\* C13: the registry is append-only: in every step the old players list is a
\* prefix of the new one, a hasPlayed flag that is set stays set, and a
\* registered player keeps a stored best handle and stays listed.
C13_AppendOnly ==
    [][/\ IsPrefix(players, players')
       /\ \A a \in Address :
            /\ hasPlayed[a] => hasPlayed'[a]
            /\ highestPlayerGuess[a] # 0 => highestPlayerGuess'[a] # 0
            /\ Occurrences(players, a) > 0 => Occurrences(players', a) > 0]_vars

C13_Witness ==
    /\ Len(players) = 2 /\ Cardinality(OkCalls) = 3
    /\ \A a \in {players[1], players[2]} : hasPlayed[a] /\ highestPlayerGuess[a] # 0

\* C14: the length of players is the number of distinct addresses that have
\* completed a successful compute call.
C14_LengthIsDistinctPlayers ==
    Len(players) = Cardinality(OkSenders)

C14_Witness ==
    /\ Len(players) = 1 /\ Cardinality(OkCalls) = 2
    /\ \E i \in DOMAIN txlog : ~txlog[i].ok /\ txlog[i].sender \notin OkSenders

\* What a principal can get the plaintext of: a handle it holds a grant on,
\* or a handle marked publicly decryptable.
Decryptable(h, q) == UserDecryptOk(h, q) \/ PublicDecryptOk(<<h>>)

InitsInFlight == {c \in Caller : fhe[c].pc \in {"initSDK", "createInstance"}}
InstancesReceived ==
    {fhe[c].val : c \in {d \in Caller : fhe[d].fn \in InitFns /\ fhe[d].status = "ok"}}

\* C16: concurrent first-time callers of initializeFHE / getFhevmInstance
\* coalesce onto one initialization: never two initializations in flight,
\* initSDK and createInstance each run at most once per initialization that
\* did not fail, and all callers receive the same relayer instance.
C16_SingleFlight ==
    /\ Cardinality(InitsInFlight) <= 1
    /\ ext.initSDK <= 1 + ext.initFailed
    /\ ext.createInstance <= 1 + ext.initFailed
    /\ Cardinality(InstancesReceived) <= 1

\* The call number `ext'.started` was started in this step by flow c.
StartedBy(c) == ext'.started = ext.started + 1 /\ fhe'[c].seq = ext'.started

\* C17: encryptValue, requestUserDecryption and fetchPublicDecryption called
\* while relayer is null fail at once with 'Relayer not initialized': relayer
\* stays null, no initialization is started and no SDK, relayer or signer
\* call is made.
C17_GuardFailsFast ==
    [][\A c \in Caller :
          (relayer = 0 /\ StartedBy(c) /\ fhe'[c].fn \in GuardedFns)
          => /\ fhe'[c].pc = "idle"
             /\ fhe'[c].status = "err"
             /\ fhe'[c].err = NotInitializedMsg
             /\ relayer' = 0
             /\ ext' = [ext EXCEPT !.started = @ + 1]]_vars

\* A guarded call was refused while another flow's initialization was pending.
C17_Witness ==
    /\ relayer = 0
    /\ \E c, d \in Caller :
          /\ fhe[c].fn \in GuardedFns /\ fhe[c].err = NotInitializedMsg
          /\ fhe[d].pc \in {"initSDK", "createInstance"} /\ fhe[d].seq < fhe[c].seq


\* ------------------------------------- usePotionContract claims
\* Flow f is, after this step, still in the submitPotion call it was in.
SameCall(f) == hook'[f].seq = hook[f].seq

\* C18: within one submitPotion call the steps are started in the order
\* encrypt, submit, wait, scan, decrypt; a step is started only when all
\* earlier ones have resolved, at most one step is unresolved, and once a step
\* has failed no further step is started.
C18_StrictPipeline ==
    [][\A f \in Flow :
          /\ IsPrefix(hook'[f].steps, PipelineOrder)
          /\ hook'[f].done <= Len(hook'[f].steps)
          /\ Len(hook'[f].steps) <= hook'[f].done + 1
          /\ SameCall(f) => IsPrefix(hook[f].steps, hook'[f].steps)
          /\ (SameCall(f) /\ hook[f].status = "err")
             => hook'[f].steps = hook[f].steps /\ hook'[f].done = hook[f].done]_vars

\* A call went through all five steps, and another call failed at the wait
\* for the receipt with nothing started after it.
C18_Witness ==
    \E f, g \in Flow :
        /\ hook[f].status = "ok" /\ hook[f].steps = PipelineOrder /\ hook[f].done = 5
        /\ hook[g].status = "err" /\ hook[g].steps = <<"encrypt", "submit", "wait">>
        /\ hook[g].done = 2

\* C19: when the receipt holds no log that decodes as ComputeResult (a
\* reverted transaction included), submitPotion throws 'ComputeResult not
\* found in logs', does not request decryption and returns no score.
C19_EventNotFound ==
    \A f \in Flow :
        (Len(hook[f].steps) >= 4 /\ ~hook[f].eventInReceipt)
        => /\ hook[f].pc = "idle"
           /\ hook[f].status = "err"
           /\ hook[f].err = NotFoundMsg
           /\ hook[f].steps = <<"encrypt", "submit", "wait", "scan">>
           /\ hook[f].score = 0
           /\ hook[f].value = 0

\* One call ended on a missing event while an earlier call had returned a
\* score: the score of the earlier call is not handed to the later one.
C19_Witness ==
    \E f, g \in Flow :
        /\ hook[f].err = NotFoundMsg /\ hook[f].score = 0
        /\ hook[g].status = "ok" /\ hook[g].score > 0 /\ hook[g].seq < hook[f].seq

\* C20: a rejected signature or a reverted transaction ends the call with
\* that error and no score; writeContract is called at most once per call,
\* and a call that has failed calls nothing more.
C20_AbortNoRetry ==
    [][\A f \in Flow :
          /\ hook'[f].writes <= 1
          /\ (SameCall(f) /\ hook[f].status = "err") => hook'[f] = hook[f]
          /\ (SignatureRejected(f) \/ WriteReverts(f)
                \/ /\ hook[f].pc = "waitReceipt" /\ hook'[f].pc # "waitReceipt"
                   /\ WaitResolves(f, [status |-> "reverted", logs |-> <<>>]))
             => /\ hook'[f].pc = "idle" /\ hook'[f].status = "err"
                /\ hook'[f].score = 0 /\ hook'[f].writes = 1
                /\ ~isLoading']_vars

\* A call whose decryption failed after its transaction was sent once.
C20_Witness ==
    \E f \in Flow :
        /\ hook[f].status = "err" /\ hook[f].steps = PipelineOrder
        /\ hook[f].writes = 1 /\ hook[f].err = SigningRejectedMsg


\* C21: every started submitPotion call of the hook eventually settles
\* (returns or throws), also when no receipt arrives.
C21_AlwaysSettles ==
    \A f \in Flow : (hook[f].pc # "idle") ~> (hook[f].pc = "idle")


\* ------------------------------------------- lib/contract.ts claims
\* C22: once the listener is installed the promise always settles, and it
\* never rejects: it resolves with success and a score when the matching
\* event was processed, and else with 'Timeout waiting for result'.
C22_MockSettles ==
    /\ [](\A f \in Flow :
            /\ mock[f].out.status # "rejected"
            /\ mock[f].out.status = "resolved"
               => \/ /\ mock[f].out.success /\ mock[f].processed
                     /\ mock[f].out.score \in MockScoreBase..(MockScoreBase + MockScoreRange - 1)
                  \/ /\ ~mock[f].out.success /\ ~mock[f].processed
                     /\ mock[f].out.error = TimeoutMsg)
    /\ \A f \in Flow : (mock[f].pc = "listening") ~> (mock[f].out.status = "resolved")

\* One call resolved with a score and another with the timeout.
C22_Witness ==
    \E f, g \in Flow :
        /\ mock[f].out.status = "resolved" /\ mock[f].out.success
        /\ mock[g].out.status = "resolved" /\ mock[g].out.error = TimeoutMsg

\* C23: when the promise has settled, cleanup has been called and no
\* listener, pending stand-in event or pending timer of the flow remains.
C23_AllReleased ==
    \A f \in Flow :
        mock[f].out.status # "none"
        => mock[f].cleanups >= 1 /\ mock[f].timers = {} /\ ~mock[f].decrypting


UserRejected(msg) == msg \in {SigningRejectedMsg, SigningDeniedMsg}
Caught(f) == hook[f].status = "err" /\ hook[f].err # WalletNotConnectedMsg

\* C24: a signing the user rejected (at the transaction prompt or at the
\* decryption authorization) is told apart from every other failure of
\* submitPotion and is presented as a cancellation, not as an error.
C24_RejectionIsCancellation ==
    \A f \in Flow :
        Caught(f)
        => /\ hook[f].toast.variant = "destructive" <=> ~UserRejected(hook[f].err)
           /\ \A g \in Flow :
                 (Caught(g) /\ UserRejected(hook[g].err) # UserRejected(hook[f].err))
                 => hook[g].toast # hook[f].toast


\* ------------------------------------- requestUserDecryption claims
\* C25: requestUserDecryption makes its calls in the order generateKeypair,
\* createEIP712, signTypedData, getAddress, userDecrypt; userDecrypt is called
\* only with a signature obtained over the payload, never after a rejected
\* signing, and with the payload's public key, contract list, start time and
\* ten-day duration, and the signer's address.
C25_DecryptProtocol ==
    /\ IsPrefix(udr.calls, ProtocolOrder)
    /\ udr.err \in {SigningRejectedMsg, SigningDeniedMsg}
       => udr.calls = <<"generateKeypair", "createEIP712", "signTypedData">>
    /\ Len(udr.calls) = Len(ProtocolOrder)
       => /\ udr.signature = [by |-> udr.signer, over |-> udr.payload]
          /\ udr.args.signature = udr.signature
          /\ udr.args.publicKey = udr.payload.publicKey
          /\ udr.args.contracts = udr.payload.contracts
          /\ udr.args.start = udr.payload.start
          /\ udr.args.days = udr.payload.days
          /\ udr.payload.days = DurationDays
          /\ udr.args.user = udr.signer

\* A request made at the later time went through to a plaintext.
C25_Witness ==
    /\ udr.status = "ok" /\ udr.calls = ProtocolOrder
    /\ udr.payload.start = 2 /\ udr.val = PlainFormula(<<1, 2, 3, 4, 5>>)

\* The compute calls that emitted the handle the request is about.
CallsEmitting(h) == {i \in OkCalls : txlog[i].ret = h}

\* C26: private decryption yields the plaintext only to a signer holding a
\* grant on the handle: for the result handle of a compute by P the relayer
\* answers P with the plaintext and refuses every other signer, and no step of
\* a request changes the contract or the ACL.
C26_OnlyGrantedSigner ==
    [][/\ udr'.status = "ok"
          => /\ <<udr'.handle, udr'.signer>> \in allowed'
             /\ udr'.val = plain'[udr'.handle]
             /\ \A i \in DOMAIN txlog' :
                   (txlog'[i].ok /\ txlog'[i].ret = udr'.handle)
                   => txlog'[i].sender = udr'.signer
       /\ (udr.pc = "userDecrypt" /\ RelayerAnswers)
          => \A i \in CallsEmitting(udr.handle) :
                IF txlog[i].sender = udr.signer
                THEN udr'.status = "ok"
                ELSE udr'.status = "err" /\ udr'.err = AuthorizationFailedMsg
       /\ udr' # udr => UNCHANGED chainVars]_vars

\* A signer other than the player was refused the player's result.
C26_Witness ==
    /\ udr.status = "err" /\ udr.err = AuthorizationFailedMsg
    /\ \E i \in CallsEmitting(udr.handle) : txlog[i].sender # udr.signer
    /\ UserDecryptOk(udr.handle, txlog[1].sender)


\* C27: submitPotion returns a score only after requestUserDecryption has
\* resolved for the handle of a ComputeResult log of this call's receipt; a
\* call that failed at any stage has no score.
C27_ScoreOnlyAfterDecryption ==
    [][\A f \in Flow :
          /\ hook'[f].score # 0
             => /\ hook'[f].status = "ok" /\ hook'[f].steps = PipelineOrder
                /\ hook'[f].done = Len(PipelineOrder)
                /\ hook'[f].value # 0 /\ hook'[f].score = ClearOf(hook'[f].value)
          /\ hook'[f].status = "err" => hook'[f].score = 0
          /\ (hook'[f].status = "ok" /\ hook'[f].op = "submitPotion")
             => hook'[f].score # 0
          /\ (SameCall(f) /\ hook[f].value # 0) => hook'[f].value = hook[f].value
          /\ (hook[f].pc = "waitReceipt" /\ hook'[f].pc = "getSigner")
             => \E receipt \in Receipts :
                   /\ WaitResolves(f, receipt)
                   /\ \E i \in DOMAIN receipt.logs :
                         receipt.logs[i] = [kind |-> "ComputeResult",
                                            value |-> hook'[f].value]]_vars

\* A call returned the score of the handle its receipt carried, the second
\* handle, while another call failed after its receipt and has no score.
C27_Witness ==
    \E f, g \in Flow :
        /\ hook[f].status = "ok" /\ hook[f].value = 2 /\ hook[f].score = ClearOf(2)
        /\ hook[g].status = "err" /\ hook[g].value # 0 /\ hook[g].score = 0

\* The step ends a call of flow f.
CallEnds(f) == hook'[f] # hook[f] /\ hook'[f].pc = "idle"
\* The call that ends had entered its try block.
EnteredTry(f) == hook[f].pc # "idle" \/ hook'[f].steps # <<>>

\* C28 as stated: after any submitPotion or fetchLeaderboard call has
\* finished, by returning or by throwing, isLoading is false.
C28_FlagResetAfterCall ==
    [][\A f \in Flow : CallEnds(f) => ~isLoading']_vars

\* C28, amended: a call that entered its try block leaves isLoading false
\* when it finishes, and isLoading is false whenever no call is in progress;
\* a call refused by its guard does not touch the flag.
C28_FlagResetByFinally ==
    [][/\ \A f \in Flow : (CallEnds(f) /\ EnteredTry(f)) => ~isLoading'
       /\ \A f \in Flow : (CallEnds(f) /\ ~EnteredTry(f)) => isLoading' = isLoading
       /\ (\A f \in Flow : hook'[f].pc = "idle") => ~isLoading']_vars

\* A submitPotion call has thrown and a fetchLeaderboard call has returned
\* rows; nothing is in progress and the flag is down.
C28_Witness ==
    /\ ~isLoading
    /\ \E f, g \in Flow :
          /\ hook[f].op = "submitPotion" /\ hook[f].status = "err"
          /\ hook[f].steps # <<>>
          /\ hook[g].op = "fetchLeaderboard" /\ hook[g].status = "ok"
          /\ hook[g].rows > 0

\* The largest sum of five bytes, its scaled value and the largest result.
MaxSum == NumInputs * (TwoPow8 - 1)
MaxScaled == MaxSum * ScaleFactor
MaxResult == MaxScaled + Offset
\* The pipeline alone, on every quintuple over ByteSamples: the ciphertexts
\* of the sum, of the scaled value and of the result hold the values the
\* unbounded-integer arithmetic gives.
PipelineExactOnSamples ==
    \A q \in [1..NumInputs -> ByteSamples] :
        LET sc == ScorePipeline(q, 1, 2, 3, 4, 5)
            total == q[1] + q[2] + q[3] + q[4] + q[5]
        IN  /\ sc.mem[sc.sum] = total
            /\ sc.mem[sc.scaled] = total * ScaleFactor
            /\ sc.mem[sc.result] = total * ScaleFactor + Offset
\* Scaling and offsetting alone, on every sum five bytes can have.
ScaleOffsetExact ==
    \A total \in 0..MaxSum :
        /\ FHEmul(total, trivialEuint16(ScaleFactor)) = total * ScaleFactor
        /\ FHEadd(total * ScaleFactor, trivialEuint16(Offset))
              = total * ScaleFactor + Offset

MaxOf(S) == CHOOSE x \in S : \A y \in S : x >= y
\* The plaintexts of the results address a has computed so far.
ResultsOf(a) == {plain[txlog[i].ret] : i \in OkCallsOf(a)}

\* C30: on a caller's first successful compute the previous best is a fresh
\* encrypted zero, minted before the comparison, and the caller is
\* registered by that call; every registered player's best is at least 300
\* and is the largest result that player has computed, which after the
\* first call is that call's result.
C30_FirstCallFromZero ==
    [][/\ \A p \in Address :
             (OkStep /\ txlog'[Len(txlog')].sender = p /\ OkCallsOf(p) = {})
             => /\ ~hasPlayed[p] /\ hasPlayed'[p]
                /\ Occurrences(players, p) = 0 /\ Occurrences(players', p) = 1
                /\ lastCall'.h.prevBest > Len(plain)
                /\ lastCall'.h.result < lastCall'.h.prevBest
                /\ lastCall'.h.prevBest < lastCall'.h.isHigher
                /\ plain'[lastCall'.h.prevBest] = InitialBest
                /\ DecryptedBest(p)' = plain'[lastCall'.h.result]
       /\ \A p \in Address :
             hasPlayed'[p]
             => /\ OkCallsOf(p)' # {}
                /\ DecryptedBest(p)' >= Offset
                /\ DecryptedBest(p)' = MaxOf(ResultsOf(p)')]_vars

\* One player has computed 3800 and then 300 and keeps 3800; another has
\* played once, on five zeros, and its best is that call's 300.
C30_Witness ==
    \E p, q \in Address :
        /\ p # q
        /\ ResultsOf(p) = {300, 3800} /\ DecryptedBest(p) = 3800
        /\ lastCall.ok /\ lastCall.sender = p /\ plain[lastCall.h.result] = 300
        /\ Cardinality(OkCallsOf(q)) = 1 /\ DecryptedBest(q) = 300

\* Ciphertexts a successful call mints before the comparison: the five
\* imported inputs, the thirteen of the pipeline, and the encrypted zero of
\* a first-time caller.
MintedBeforeGt(isNew) == NumInputs + 13 + (IF isNew THEN 1 ELSE 0)

\* C31: the best-score update is oblivious: what a successful compute
\* writes, grants, marks public and emits is fixed by the caller and by
\* whether the caller is registered, and the stored best is a handle minted
\* by the call, whatever the outcome of the comparison.
C31_ObliviousUpdate ==
    [][OkStep =>
         LET p == lastCall'.sender
             n == Len(plain)
             k == n + MintedBeforeGt(~hasPlayed[p])
             result == n + NumInputs + 13
         IN  /\ Len(plain') = k + 2
             /\ lastCall'.h.result = result
             /\ lastCall'.h.isHigher = k + 1
             /\ lastCall'.h.newBest = k + 2
             /\ plain'[k + 1] \in {0, 1}
             /\ highestPlayerGuess' = [highestPlayerGuess EXCEPT ![p] = k + 2]
             /\ allowed' = allowed \cup {<<result, This>>, <<k + 2, This>>,
                                         <<result, p>>, <<k + 2, p>>}
             /\ publicDecryptable' = publicDecryptable \cup {k + 2}
             /\ events' = Append(events, result)]_vars

\* Two successful calls of one registered player, the earlier one with a
\* result above the previous best and the later one with a result below it:
\* each stored a handle of its own.
C31_Witness ==
    /\ lastCall.ok /\ plain[lastCall.h.isHigher] = 0
    /\ highestPlayerGuess[lastCall.sender] = lastCall.h.newBest
    /\ lastCall.h.newBest # lastCall.h.prevBest
    /\ lastCall.h.prevBest <= lastCall.base
    /\ \E i \in DOMAIN txlog :
          /\ txlog[i].ok /\ txlog[i].sender = lastCall.sender
          /\ txlog[i].best = lastCall.h.prevBest
          /\ plain[txlog[i].best] = plain[txlog[i].ret]

\* C32: the contract holds a grant on the stored best handle of every
\* registered player, and the next compute of a registered player, made
\* with a valid attestation, takes that handle as the operand of the
\* comparison and goes through.
C32_ContractGrantedOnBest ==
    /\ [](\A p \in Address :
             hasPlayed[p] => /\ highestPlayerGuess[p] \in Handles
                             /\ <<highestPlayerGuess[p], This>> \in allowed)
    /\ [][\A p \in Address :
             (/\ TxStep /\ lastCall'.sender = p /\ hasPlayed[p]
              /\ AttestationValid(lastCall'.att, p))
             => /\ lastCall'.ok
                /\ lastCall'.h.prevBest = highestPlayerGuess[p]
                /\ isAllowed(lastCall'.h.prevBest, This, Len(plain))]_vars

\* A registered player has computed again: the comparison took the best
\* stored by the earlier call, on which the contract held a persistent
\* grant, and the contract is granted on the newly stored best too.
C32_Witness ==
    /\ lastCall.ok /\ hasPlayed[lastCall.sender]
    /\ lastCall.h.prevBest <= lastCall.base
    /\ <<lastCall.h.prevBest, This>> \in allowed
    /\ highestPlayerGuess[lastCall.sender] = lastCall.h.newBest
    /\ <<lastCall.h.newBest, This>> \in allowed
    /\ plain[lastCall.h.isHigher] = 1

\* C33: a compute call by p leaves the hasPlayed flag and the stored best
\* handle of every other address as they were, and every player already
\* listed at the position it had.
C33_OthersUntouched ==
    [][\A p \in Address :
          (TxStep /\ lastCall'.sender = p)
          => /\ \A q \in Address \ {p} :
                   /\ hasPlayed'[q] = hasPlayed[q]
                   /\ highestPlayerGuess'[q] = highestPlayerGuess[q]
                   /\ DecryptedBest(q)' = DecryptedBest(q)
             /\ Len(players') >= Len(players)
             /\ \A i \in DOMAIN players : players'[i] = players[i]]_vars

\* A second player has just registered behind the first, whose best was
\* stored by an earlier call; an address that never played had called in
\* between without success.
C33_Witness ==
    /\ Len(players) = 2 /\ lastCall.ok /\ lastCall.sender = players[2]
    /\ lastCall.h.prevBest > lastCall.base
    /\ highestPlayerGuess[players[1]] \in 1..lastCall.base
    /\ \E i \in DOMAIN txlog : ~txlog[i].ok /\ txlog[i].sender = players[2]

\* ------------------------------------------------ log scan claims
\* The positions of the ComputeResult logs of the receipt being scanned.
ComputeResultsAt == {k \in DOMAIN scan.logs : scan.logs[k].kind = "ComputeResult"}
FirstComputeResult == CHOOSE k \in ComputeResultsAt : \A j \in ComputeResultsAt : k <= j

\* C34: the scan takes the handle of the first log, in receipt order, that
\* decodes as ComputeResult: logs that do not decode or decode to another
\* event are passed over, the loop stops at that log, and later
\* ComputeResult logs are not read.
C34_FirstComputeResult ==
    /\ scan.pc = "loop" =>
          /\ scan.value = 0
          /\ \A k \in 1..(scan.i - 1) : scan.logs[k].kind # "ComputeResult"
    /\ scan.pc \in {"after", "thrown", "found"} =>
          /\ scan.value = ScanLogs(scan.logs)
          /\ IF ComputeResultsAt = {}
             THEN scan.value = 0 /\ scan.i = Len(scan.logs) + 1
             ELSE /\ scan.i = FirstComputeResult
                  /\ scan.value = scan.logs[FirstComputeResult].value
    /\ scan.pc = "thrown" => ComputeResultsAt = {}
    /\ scan.pc = "found" => ComputeResultsAt # {}

\* The scan passed a log that does not decode, took handle 2 from the
\* ComputeResult after it and left a later ComputeResult with handle 1.
C34_Witness ==
    /\ scan.pc = "found" /\ Len(scan.logs) = 3
    /\ scan.logs[1].kind = "Undecodable"
    /\ scan.logs[2] = [kind |-> "ComputeResult", value |-> 2]
    /\ scan.logs[3] = [kind |-> "ComputeResult", value |-> 1]
    /\ scan.value = 2

\* ------------------------------------------------ isHighest claims
\* C35: the isHighest a submitPotion call returns is a boolean read from
\* the ComputeResult event: true when the result exceeded the previous
\* best, false otherwise.
C35_IsHighestFromEvent ==
    \A f \in Flow :
        (hook[f].op = "submitPotion" /\ hook[f].status = "ok")
        => hook[f].isHighest \in {"true", "false"}

\* ------------------------------------------------ fetchLeaderboard claims
\* The step ends a fetchLeaderboard call of flow f.
FetchEnds(f) == CallEnds(f) /\ hook'[f].op = "fetchLeaderboard"

\* C36: fetchLeaderboard never throws.  It returns [] without a public
\* client, for an empty registry (public decryption is then not called) and
\* when the read or the decryption fails; else it returns one entry per
\* player, in registry order, entry i holding players[i] and the clear value
\* of guesses[i].
C36_LeaderboardOrEmpty ==
    [][\A f \in Flow :
          /\ FetchEnds(f) =>
                /\ hook'[f].status = "ok"
                /\ hook[f].pc = "idle" => hook'[f].board = <<>>
                /\ hook'[f].toast = LeaderboardToast => hook'[f].board = <<>>
                /\ (hook[f].pc = "readContract" /\ hook'[f].toast = NoToast)
                      => hook'[f].board = <<>> /\ hook'[f].rows = 0
                /\ (hook[f].pc = "publicDecrypt" /\ hook'[f].toast = NoToast)
                      => LET result == ReadResult(hook[f].rows)
                         IN  /\ Len(hook'[f].board) = Len(result.allPlayers)
                             /\ \A i \in DOMAIN result.allPlayers :
                                   /\ hook'[f].board[i].player = result.allPlayers[i]
                                   /\ hook'[f].board[i].guess = ClearOf(result.guesses[i])
          /\ (hook[f].pc = "readContract" /\ hook'[f].pc = "publicDecrypt")
                => hook'[f].rows > 0]_vars

\* One call returned the two rows of a registry of two, the second player
\* first; another call's read failed and it returned [] with the toast.
C36_Witness ==
    \E f, g \in Flow :
        /\ hook[f].op = "fetchLeaderboard" /\ hook[f].pc = "idle"
        /\ hook[f].board = <<[player |-> 2, guess |-> Offset],
                             [player |-> 1, guess |-> Offset + ScaleFactor * 15]>>
        /\ hook[g].op = "fetchLeaderboard" /\ hook[g].pc = "idle"
        /\ hook[g].toast = LeaderboardToast /\ hook[g].board = <<>>

\* Some call of the hook is in flight: it has entered its try block and has
\* not finished.
InFlight(f) == hook[f].pc # "idle"

\* C37: with calls of the hook in flight at the same time, isLoading is true
\* whenever at least one of them is still in flight, and false only when
\* none is.
C37_LoadingWhileInFlight ==
    isLoading <=> \E f \in Flow : InFlight(f)

\* C38: a submitPotion call made while address, walletClient or publicClient
\* is missing throws 'Wallet not connected' at once: nothing is encrypted,
\* sent or decrypted, and isLoading is as it was.  A call made with all
\* three present does not end on that error.
C38_GuardBeforeTry ==
    [][\A f \in Flow :
          /\ SubmitPotion(f, FALSE)
                => /\ hook'[f].pc = "idle" /\ hook'[f].status = "err"
                   /\ hook'[f].err = WalletNotConnectedMsg
                   /\ hook'[f].steps = <<>> /\ hook'[f].done = 0
                   /\ hook'[f].writes = 0 /\ hook'[f].score = 0
                   /\ hook'[f].toast = WalletToast
                   /\ isLoading' = isLoading
                   /\ ext' = ext /\ fhe' = fhe
          /\ SubmitPotion(f, TRUE)
                => /\ hook'[f].err # WalletNotConnectedMsg
                   /\ hook'[f].steps = <<"encrypt">>]_vars

\* A call was refused for want of a wallet while another call was awaiting
\* its receipt: the flag raised by that call is still up.
C38_Witness ==
    \E f, g \in Flow :
        /\ hook[f].err = WalletNotConnectedMsg /\ hook[f].steps = <<>>
        /\ hook[f].pc = "idle" /\ hook[f].seq > hook[g].seq
        /\ hook[g].pc = "waitReceipt"
        /\ isLoading

\* The call of flow f was made for a user other than the one the event
\* names, whatever the case of the letters.
ForAnotherUser(f) == mock[f].user.hex \notin {NoAddress.hex, MockAddress.hex}
\* The listener of flow f has been called with the event.
EventDelivered(f) ==
    mock[f].pc = "listening" /\ "event" \notin mock[f].timers

\* C39: an event is processed only if it is for the current user.  When
\* userAddress is given and names another account than the event's address,
\* compared without regard to case, the event is ignored, nothing is
\* decrypted, and the call can end only by the 30-second timeout; in every
\* other case the event is decrypted.
C39_OnlyOwnEvent ==
    \A f \in Flow :
        /\ ForAnotherUser(f) =>
              /\ ~mock[f].decrypting /\ ~mock[f].processed
              /\ EventDelivered(f) => mock[f].timers = {"timeout"}
              /\ mock[f].out.status # "none" =>
                    /\ ~mock[f].out.success /\ mock[f].out.score = 0
                    /\ mock[f].out.error = TimeoutMsg
        /\ (~ForAnotherUser(f) /\ EventDelivered(f)) => mock[f].decrypting
        /\ mock[f].processed => mock[f].out.success

\* One call, made for another account, ended on the timeout without a
\* decryption; another, made for the event's account written in lower case,
\* was decrypted and returned a score.
C39_Witness ==
    \E f, g \in Flow :
        /\ ForAnotherUser(f) /\ mock[f].out.error = TimeoutMsg /\ ~mock[f].processed
        /\ mock[g].user = [hex |-> MockAddress.hex, mixed |-> FALSE]
        /\ mock[g].processed /\ mock[g].out.success

\* ------------------------------------- sequential initialization
\* C40: with sequential calls, once the relayer is set it is never
\* replaced, and a later initializeFHE or getFhevmInstance returns it at
\* once without calling initSDK or createInstance; a rejected initSDK or
\* createInstance ends the call with 'Failed to initialize FHE encryption'
\* and leaves relayer null, and a call made while relayer is null starts
\* an initialization.
C40_IdempotentRetryable ==
    /\ [](Cardinality(InstancesReceived \ {0}) <= 1)
    /\ [][/\ relayer # 0 => relayer' = relayer
          /\ \A c \in Caller :
                /\ (StartedBy(c) /\ fhe'[c].fn \in InitFns /\ relayer # 0)
                      => /\ fhe'[c].pc = "idle" /\ fhe'[c].status = "ok"
                         /\ fhe'[c].val = relayer
                         /\ ext'.initSDK = ext.initSDK
                         /\ ext'.createInstance = ext.createInstance
                /\ (fhe[c].pc \in {"initSDK", "createInstance"} /\ fhe'[c].status = "err")
                      => /\ fhe'[c].err = InitFailedMsg /\ fhe'[c].pc = "idle"
                         /\ relayer = 0 /\ relayer' = 0
                /\ (StartedBy(c) /\ fhe'[c].fn \in InitFns /\ relayer = 0)
                      => /\ fhe'[c].pc = "initSDK"
                         /\ ext'.initSDK = ext.initSDK + 1
                /\ (fhe[c].pc \in {"createInstance", "resume"} /\ fhe'[c].status = "ok")
                      => fhe'[c].val = relayer' /\ relayer' # 0]_vars

\* The first call failed, the second initialized the relayer, and the third
\* was handed that instance with no further initSDK or createInstance.
C40_Witness ==
    /\ ext.started = 3 /\ ext.initFailed = 1
    /\ ext.initSDK = 2 /\ ext.createInstance <= 2
    /\ relayer # 0
    /\ \E c \in Caller :
          /\ fhe[c].seq = 3 /\ fhe[c].fn \in InitFns
          /\ fhe[c].status = "ok" /\ fhe[c].val = relayer

====
